---- MODULE Spec2Model ----
(***************************************************************************)
(* A model of the play-event simulator of top-songs-dashboard:             *)
(*   - APIPoster.post_event        (ingestion/simulator/api_poster.py)     *)
(*   - EventFactory                (ingestion/simulator/event_factory.py)  *)
(*   - generate_historical_events, generate_live_events                    *)
(*                                 (ingestion/simulator/                   *)
(*                                  simulation_engine.py)                  *)
(*   - the simulate command line   (ingestion/simulator/cli.py)            *)
(*   - run_simulation_command, generate_master_data_command                *)
(*                                 (ingestion/simulator/commands.py)       *)
(*   - POST /play                  (ingestion/api/app.py) and              *)
(*     KafkaInterface.produce      (streaming/kafka.py)                    *)
(* Each component has its own specification over the shared variables; the *)
(* variables of the other components stay at their initial values.         *)
(***************************************************************************)
EXTENDS Integers, Sequences, FiniteSets, TLC

(***************************************************************************)
(* Bounds of the model.                                                    *)
(***************************************************************************)
\* largest configured max_retries explored (the transport script is one longer)
MaxRetries == 3
\* number of distinct events handed to post_event
MaxEvents == 2
\* largest number of records in one master data file
MaxRecords == 2
\* song durations run from MIN_PLAY_MS - 1 up to MIN_PLAY_MS + MaxExtraMs
MaxExtraMs == 1
\* largest volume passed to generate_historical_events
MaxVolume == 3
\* the wall clock runs from 0 to MaxClock seconds
MaxClock == 3
\* the datetimes passed by callers are 0 .. MaxTime microseconds
MaxTime == 2
\* largest --threads of a run
MaxThreads == 2
\* largest --volume of a historical run
MaxRunVolume == 2
\* the wall clock of a live run goes from 0 to MaxRunClock seconds
MaxRunClock == 1
\* number of POST /play requests
MaxRequests == 2
\* largest --threads and --volume of a run followed up to the start of its
\* threads
MaxPartThreads == 4
MaxBatch == 4

(***************************************************************************)
(* Program constants.                                                      *)
(***************************************************************************)
\* api_poster.py:11, the default of max_retries
DEFAULT_MAX_RETRIES == 3
\* event_factory.py:58, the lower bound of random.randint
MIN_PLAY_MS == 10000
\* simulation_engine.py:51, the seconds of a minute
SECONDS_PER_MINUTE == 60
\* simulation_engine.py:51, the interval in seconds when the rate is not positive
FALLBACK_INTERVAL == 1
\* microseconds of a second (the resolution of datetime and timedelta)
SECOND == 1000000

VARIABLES
    \* ---- APIPoster -----------------------------------------------------
    max_retries,   \* self.max_retries
    transport,     \* what the endpoint does on the n-th httpx.post of a call
    p_pc,          \* position in post_event: "idle", "loop", "returned"
    p_event,       \* event_id of the event being posted (0: none)
    attempt,       \* the loop variable of post_event
    attempts,      \* number of httpx.post calls made by the call
    result,        \* value post_event returned: "True", "False", "None"
    log,           \* logger.error entries, <<attempt, event_id>>
    \* ---- master data files and EventFactory ----------------------------
    format,        \* the format argument of EventFactory.__init__
    files,         \* songs/users/locations file in master_data_dir
    f_pc,          \* "new", "ready" (constructed), "load_failed"
    f_error,       \* exception that left EventFactory.__init__ ("": none)
    songs,         \* self.songs
    users,         \* self.users
    locations,     \* self.locations
    uuid_counter,  \* number of uuid.uuid4() values drawn so far
    clock,         \* the wall clock, in microseconds
    created,       \* outcome of the last direct create_event call
    \* ---- generate_historical_events ------------------------------------
    h_pc,          \* "idle", "loop", "returned", "raised"
    h_error,       \* exception that left the function ("": none)
    start_datetime,
    end_datetime,
    volume,
    total_seconds, \* (end_datetime - start_datetime), in microseconds
    h_i,           \* the loop variable i
    events,        \* the list being built; the return value once returned
    factory_calls, \* create_event calls made by the generator
    \* ---- generate_live_events ------------------------------------------
    l_pc,          \* "idle", "created", "loop", "create", "yielded", "sleep",
                   \* "done" (StopIteration), "raised"
    l_error,       \* exception that left the generator ("": none)
    volume_per_minute,
    duration_seconds,
    interval,      \* in microseconds
    start_time,    \* in microseconds
    now,           \* the reading of line 55, in microseconds
    count,
    wake_at,       \* end of the running time.sleep(interval)
    yielded,       \* the event of the last yield (<<>>: none yet)
    \* ---- the simulate command line (cli.py) ----------------------------
    c_pc,          \* "invoked", "bad_parameter" (exit code 2), "in_command"
    command,       \* "run" or "generate-master"
    options,       \* the option values of the command line
    c_error,       \* name of the parameter BadParameter was raised for
    m_pc,          \* generate_master_data_command: "idle", "returned"
    \* ---- run_simulation_command ----------------------------------------
    r_pc,          \* "idle", "called", "generate", "spawn", "returned", "raised"
    r_error,       \* exception that left run_simulation_command ("": none)
    args,          \* the arguments of the call (<<>>: not called)
    r_log,         \* the records logged by the "Simulator" logger, in order
    chunk_size,
    thread_list,   \* the threads started, in order
    joined,        \* number of t.join() calls that have returned
    \* ---- the worker threads (post_events, live_worker) ------------------
    w_pc,          \* "unstarted", "running", "posting", "sleep", "finished"
    w_chunk,       \* the chunk a historical worker was given
    w_pos,         \* number of events of the chunk already handed to post_event
    w_event,       \* the event being posted (<<>>: none)
    w_attempt,     \* the loop variable of the worker's post_event call
    w_error,       \* exception that ended the thread ("": none)
    w_start,       \* start_time of the worker's live generator
    w_wake,        \* end of the generator's running time.sleep
    post_calls,    \* event_ids post_event was invoked with, with their counts
    deliveries,    \* httpx.post calls made by all workers
    window_posts,  \* httpx.post calls started in the second that began at clock
    \* ---- ingestion API (app.py) and KafkaInterface ----------------------
    a_pc,          \* per request: "none", "handler", "construct", "send", "responded"
    a_event,       \* per request: the validated PlayEventData (<<>>: none)
    a_response,    \* per request: the response sent (<<>>: none yet)
    produce_calls, \* per request: kafka.produce calls made for it
    a_forward,     \* per request: how its last kafka.produce call ended
                   \* ("": not yet, "returned", "raised")
    producer,      \* kafka._producer (0: None)
    a_producer,    \* per request: the Producer the producer property returned
                   \* to its kafka.produce call (0: none yet)
    producers_made,\* Producer(conf) objects constructed
    topic,         \* the messages the producer accepted, in order
    api_log        \* number of logger.error records of the API

poster_vars == <<max_retries, transport, p_pc, p_event, attempt, attempts, result, log>>

factory_vars == <<format, files, f_pc, f_error, songs, users, locations,
                  uuid_counter, clock, created>>

hist_vars == <<h_pc, h_error, start_datetime, end_datetime, volume, total_seconds,
               h_i, events, factory_calls>>

live_vars == <<l_pc, l_error, volume_per_minute, duration_seconds, interval,
               start_time, now, count, wake_at, yielded>>

cli_vars == <<c_pc, command, options, c_error, m_pc>>

dispatch_vars == <<r_pc, r_error, args, r_log, chunk_size, thread_list, joined>>

worker_vars == <<w_pc, w_chunk, w_pos, w_event, w_attempt, w_error, w_start, w_wake,
                 post_calls, deliveries, window_posts>>

run_vars == <<dispatch_vars, worker_vars>>

api_vars == <<a_pc, a_event, a_response, produce_calls, a_forward, producer,
              a_producer, producers_made, topic, api_log>>

vars == <<poster_vars, factory_vars, hist_vars, live_vars, cli_vars, run_vars, api_vars>>

(***************************************************************************)
(* APIPoster                                                               *)
(***************************************************************************)
\* Outcome of one httpx.post + raise_for_status:
\*   "ok"              2xx response, raise_for_status returns
\*   "transport_error" httpx.post raises (timeout, connection error, ...)
\*   "http_error"      a response arrives, raise_for_status raises (non-2xx)
Outcomes == {"ok", "transport_error", "http_error"}

EventIds == 1 .. MaxEvents

\* range(1, self.max_retries + 1)
AttemptRange(retries) == 1 .. retries

\* APIPoster.__init__: stores the configuration, no request is made.
PosterInit ==
    /\ max_retries \in 0 .. MaxRetries
    /\ transport \in [1 .. MaxRetries + 1 -> Outcomes]
    /\ p_pc = "idle"
    /\ p_event = 0
    /\ attempt = 0
    /\ attempts = 0
    /\ result = "NoReturn"
    /\ log = <<>>

\* post_event is entered: the for loop starts, or, with an empty range, the
\* function body ends without a return statement (Python returns None).
PostEventCall(event_id) ==
    /\ p_pc = "idle"
    /\ p_event' = event_id
    /\ IF AttemptRange(max_retries) = {}
          THEN /\ p_pc' = "returned"
               /\ result' = "None"
               /\ attempt' = attempt
          ELSE /\ p_pc' = "loop"
               /\ result' = result
               /\ attempt' = 1
    /\ UNCHANGED <<max_retries, transport, attempts, log>>
    /\ UNCHANGED <<factory_vars, hist_vars, live_vars, cli_vars, run_vars, api_vars>>

\* line 44: the record logger.error writes for a failed attempt, its number
\* and the event's id. The mutant numbers the attempts from 0.
ErrorRecordFromZero(n, event_id) == <<n - 1, event_id>>
ErrorRecord(n, event_id) == <<n, event_id>>

\* the mutant of the except branch: return False on the first failure
AttemptFailedNoRetry ==
    /\ log' = Append(log, ErrorRecord(attempt, p_event))
    /\ p_pc' = "returned"
    /\ result' = "False"
    /\ attempt' = attempt

\* the except branch: log, then return False on the last attempt
AttemptFailed ==
    /\ log' = Append(log, ErrorRecord(attempt, p_event))
    /\ IF attempt = max_retries
          THEN /\ p_pc' = "returned"
               /\ result' = "False"
               /\ attempt' = attempt
          ELSE /\ p_pc' = "loop"
               /\ result' = result
               /\ attempt' = attempt + 1

\* the try branch ran to its end: return True
AttemptSucceeded ==
    /\ p_pc' = "returned"
    /\ result' = "True"
    /\ UNCHANGED <<attempt, log>>

\* One iteration of the for loop of post_event.
PostEventAttempt ==
    /\ p_pc = "loop"
    /\ attempts' = attempts + 1
    /\ IF transport[attempts + 1] = "ok"
          THEN AttemptSucceeded
          ELSE AttemptFailed
    /\ UNCHANGED <<max_retries, transport, p_event>>
    /\ UNCHANGED <<factory_vars, hist_vars, live_vars, cli_vars, run_vars, api_vars>>

(***************************************************************************)
(* Master data files and EventFactory                                      *)
(***************************************************************************)
SongId(i) == <<"song", i>>
UserId(i) == <<"user", i>>
LocationId(i) == <<"loc", i>>

\* duration_ms values of the songs explored: below, at and above MIN_PLAY_MS
DurationSet == (MIN_PLAY_MS - 1) .. (MIN_PLAY_MS + MaxExtraMs)

\* SongMasterData, UserMasterData, LocationMasterData: the fields the
\* simulator reads (the identifier, and the song's duration_ms).
SongRows ==
    UNION { { [i \in 1 .. k |-> [song_id |-> SongId(i), duration_ms |-> d[i]]] :
                d \in [1 .. k -> DurationSet] } : k \in 0 .. MaxRecords }
UserRows ==
    { [i \in 1 .. k |-> [user_id |-> UserId(i)]] : k \in 0 .. MaxRecords }
LocationRows ==
    { [i \in 1 .. k |-> [location_id |-> LocationId(i)]] : k \in 0 .. MaxRecords }

\* A file as the loader sees it:
\*   "rows"      well-formed, decodes to the records `rows` (possibly none)
\*   "nodata"    pandas raises pd.errors.EmptyDataError
\*   "malformed" pandas or the record model raises any other error
FilesOf(rows) ==
    { [kind |-> "rows", rows |-> r] : r \in rows }
        \cup { [kind |-> k, rows |-> <<>>] : k \in {"nodata", "malformed"} }

Formats == {"csv", "json", "xml"}

\* _load_csv_or_json: the list of records, or the exception that leaves it
LoadCsvOrJson(fmt, file) ==
    IF fmt \in {"csv", "json"}
       THEN CASE file.kind = "rows" -> [exc |-> "", rows |-> file.rows]
              [] file.kind = "nodata" -> [exc |-> "", rows |-> <<>>]
              [] OTHER -> [exc |-> "DecodeError", rows |-> <<>>]
       ELSE [exc |-> "ValueError: Unsupported file format", rows |-> <<>>]

\* no direct create_event call was made yet
NoCall == [exc |-> "", event |-> <<>>]

FactoryIdle ==
    /\ format = "csv"
    /\ files = [n \in {"songs", "users", "locations"} |-> [kind |-> "nodata", rows |-> <<>>]]
    /\ f_pc = "new"
    /\ f_error = ""
    /\ songs = <<>>
    /\ users = <<>>
    /\ locations = <<>>
    /\ uuid_counter = 0
    /\ clock = 0
    /\ created = NoCall

\* The master data directory before the factory is constructed.
FactoryInit ==
    /\ format \in Formats
    /\ \E s \in FilesOf(SongRows), u \in FilesOf(UserRows), l \in FilesOf(LocationRows) :
          files = [n \in {"songs", "users", "locations"} |->
                      IF n = "songs" THEN s ELSE IF n = "users" THEN u ELSE l]
    /\ f_pc = "new"
    /\ f_error = ""
    /\ songs = <<>>
    /\ users = <<>>
    /\ locations = <<>>
    /\ uuid_counter = 0
    /\ clock = 0
    /\ created = NoCall

\* EventFactory.__init__: the three loads in order; the first exception leaves
\* the constructor and no factory exists.
ConstructFactory ==
    /\ f_pc = "new"
    /\ LET s == LoadCsvOrJson(format, files["songs"])
           u == LoadCsvOrJson(format, files["users"])
           l == LoadCsvOrJson(format, files["locations"])
           exc == IF s.exc # "" THEN s.exc ELSE IF u.exc # "" THEN u.exc ELSE l.exc
       IN  IF exc # ""
              THEN /\ f_pc' = "load_failed"
                   /\ f_error' = exc
                   /\ UNCHANGED <<songs, users, locations>>
              ELSE /\ f_pc' = "ready"
                   /\ f_error' = ""
                   /\ songs' = s.rows
                   /\ users' = u.rows
                   /\ locations' = l.rows
    /\ UNCHANGED <<format, files, uuid_counter, clock, created>>
    /\ UNCHANGED <<poster_vars, hist_vars, live_vars, cli_vars, run_vars, api_vars>>

Range(seq) == { seq[k] : k \in 1 .. Len(seq) }

\* random.choice(seq): the elements it can return; none means it raises
\* IndexError (empty sequence)
RandomChoice(seq) == Range(seq)

\* random.randint(a, b): the values it can return; none means it raises
\* ValueError (empty range for randrange)
RandInt(a, b) == a .. b

\* faker.random_element([...]) of create_event
DeviceTypes == {"mobile", "desktop", "tablet"}

\* line 58, the play duration drawn for the chosen song. The mutant draws
\* from a range one past the song's end.
PlayDurationsPastEnd(song) == RandInt(MIN_PLAY_MS, song.duration_ms + 1)
PlayDurations(song) == RandInt(MIN_PLAY_MS, song.duration_ms)

\* lines 60-68. The mutant fills song_id from the user record.
PlayEventDataWrongId(event_id, song, user, location, played_at, play_duration_ms, device_type) ==
    [event_id |-> event_id,
     song_id |-> user.user_id,
     user_id |-> user.user_id,
     location_id |-> location.location_id,
     played_at |-> played_at,
     play_duration_ms |-> play_duration_ms,
     device_type |-> device_type]
PlayEventData(event_id, song, user, location, played_at, play_duration_ms, device_type) ==
    [event_id |-> event_id,
     song_id |-> song.song_id,
     user_id |-> user.user_id,
     location_id |-> location.location_id,
     played_at |-> played_at,
     play_duration_ms |-> play_duration_ms,
     device_type |-> device_type]

\* line 53, the guard at the top of create_event. The mutant rejects only
\* when all three collections are empty.
MasterDataAllEmpty == songs = <<>> /\ users = <<>> /\ locations = <<>>
MasterDataEmpty == songs = <<>> \/ users = <<>> \/ locations = <<>>

\* an exception leaves create_event: nothing is returned
Raised(exc) == [exc |-> exc, event |-> <<>>]
Returned(event) == [exc |-> "", event |-> event]

\* datetime.now(UTC)
Now == [us |-> clock, tz |-> "UTC"]

\* create_event: every outcome the random draws allow. played_at is the
\* argument (<<>> for None), event_id the uuid4 drawn on line 61.
CreateEvent(played_at, event_id) ==
    IF MasterDataEmpty
       THEN { Raised("ValueError: Master data is empty") }
    ELSE IF RandomChoice(songs) = {} \/ RandomChoice(users) = {} \/ RandomChoice(locations) = {}
       THEN { Raised("IndexError") }
    ELSE UNION { IF PlayDurations(song) = {}
                    THEN { Raised("ValueError: empty range for randrange") }
                    ELSE { Returned(PlayEventData(event_id, song, user, location,
                                        IF played_at = <<>> THEN Now ELSE played_at,
                                        play_duration_ms, device_type)) :
                             user \in RandomChoice(users),
                             location \in RandomChoice(locations),
                             play_duration_ms \in PlayDurations(song),
                             device_type \in DeviceTypes }
               : song \in RandomChoice(songs) }

\* the datetimes callers pass for start and end: naive ones, and a
\* timezone-aware one
Datetimes ==
    { [us |-> t, tz |-> "naive"] : t \in 0 .. MaxTime } \cup { [us |-> 0, tz |-> "UTC"] }

\* the played_at arguments of the direct calls explored: None, a naive and
\* an aware datetime
CallTimes == {<<>>} \cup { [us |-> MaxTime, tz |-> z] : z \in {"naive", "UTC"} }

\* A direct call factory.create_event(played_at) on a constructed factory.
\* create_event reads the factory and never writes it, so one returned event
\* per behaviour is explored; a call that raised can be repeated.
CreateEventCall(played_at) ==
    /\ f_pc = "ready"
    /\ h_pc = "idle"
    /\ l_pc = "idle"
    /\ created.event = <<>>
    /\ created' \in CreateEvent(played_at, uuid_counter + 1)
    \* uuid.uuid4() is drawn on line 61, after every draw that can raise
    /\ uuid_counter' = IF created'.exc = "" THEN uuid_counter + 1 ELSE uuid_counter
    /\ UNCHANGED <<format, files, f_pc, f_error, songs, users, locations, clock>>
    /\ UNCHANGED <<poster_vars, hist_vars, live_vars, cli_vars, run_vars, api_vars>>

(***************************************************************************)
(* generate_historical_events                                              *)
(***************************************************************************)
\* n / d (d > 0) rounded to a nearest integer. timedelta(seconds=x) rounds x
\* to whole microseconds, ties to even; x is a float product, and which way
\* an exact tie falls depends on the float's last bit, so a tie may go
\* either way.
Nearest(n, d) ==
    LET q == n \div d
        r == n % d
    IN  IF 2 * r < d THEN {q}
        ELSE IF 2 * r > d THEN {q + 1}
        ELSE {q, q + 1}

\* timedelta(seconds=total_seconds * (i / volume)), in microseconds: the
\* values the float computation can give. (Exact up to the tie for spans of
\* less than about three years.) The mutants count the index from the end,
\* and from 1.
OffsetsReversed(total, idx, vol) == Nearest(total * (vol - idx), vol)
OffsetsNextIndex(total, idx, vol) == Nearest(total * (idx + 1), vol)
Offsets(total, idx, vol) == Nearest(total * idx, vol)

\* range(volume), and the mutant range(volume - 1)
LoopRangeShort(vol) == 0 .. (vol - 2)
LoopRange(vol) == 0 .. (vol - 1)

\* start_datetime + timedelta(...)
PlayedAt(start, offset) == [us |-> start.us + offset, tz |-> start.tz]

HistIdle ==
    /\ h_pc = "idle"
    /\ h_error = ""
    /\ start_datetime = <<>>
    /\ end_datetime = <<>>
    /\ volume = 0
    /\ total_seconds = 0
    /\ h_i = 0
    /\ events = <<>>
    /\ factory_calls = 0

\* generate_historical_events is entered: line 25 subtracts the datetimes
\* (Python raises TypeError for a naive and an aware one), line 26 starts the
\* list.
HistCall(start, end, vol) ==
    /\ f_pc = "ready"
    /\ h_pc = "idle"
    /\ l_pc = "idle"
    /\ created = NoCall
    /\ start_datetime' = start
    /\ end_datetime' = end
    /\ volume' = vol
    /\ IF start.tz # end.tz
          THEN /\ h_pc' = "raised"
               /\ h_error' = "TypeError"
               /\ UNCHANGED total_seconds
          ELSE /\ h_pc' = "loop"
               /\ h_error' = ""
               /\ total_seconds' = end.us - start.us
    /\ h_i' = 0
    /\ events' = <<>>
    /\ UNCHANGED factory_calls
    /\ UNCHANGED <<poster_vars, factory_vars, live_vars, cli_vars, run_vars, api_vars>>

\* One iteration of the for loop: lines 29-32. An exception of create_event
\* leaves the function.
HistStep ==
    /\ h_pc = "loop"
    /\ h_i \in LoopRange(volume)
    /\ factory_calls' = factory_calls + 1
    /\ \E offset \in Offsets(total_seconds, h_i, volume) :
       \E o \in CreateEvent(PlayedAt(start_datetime, offset), uuid_counter + 1) :
          IF o.exc # ""
             THEN /\ h_pc' = "raised"
                  /\ h_error' = o.exc
                  /\ UNCHANGED <<h_i, events, uuid_counter>>
             ELSE /\ h_pc' = "loop"
                  /\ h_error' = ""
                  /\ events' = Append(events, o.event)
                  /\ h_i' = h_i + 1
                  /\ uuid_counter' = uuid_counter + 1
    /\ UNCHANGED <<start_datetime, end_datetime, volume, total_seconds>>
    /\ UNCHANGED <<format, files, f_pc, f_error, songs, users, locations, clock, created>>
    /\ UNCHANGED <<poster_vars, live_vars, cli_vars, run_vars, api_vars>>

\* range(volume) is exhausted: return events (line 33)
HistReturn ==
    /\ h_pc = "loop"
    /\ h_i \notin LoopRange(volume)
    /\ h_pc' = "returned"
    /\ UNCHANGED <<h_error, start_datetime, end_datetime, volume, total_seconds,
                   h_i, events, factory_calls>>
    /\ UNCHANGED <<poster_vars, factory_vars, live_vars, cli_vars, run_vars, api_vars>>

\* Master data of the factories the generators are run on: two songs, a song
\* longer than MIN_PLAY_MS, two users, two locations, a song shorter than
\* MIN_PLAY_MS beside a long one, no users, no songs.
SongList(durations) ==
    [k \in 1 .. Len(durations) |-> [song_id |-> SongId(k), duration_ms |-> durations[k]]]
UserList(n) == [k \in 1 .. n |-> [user_id |-> UserId(k)]]
LocationList(n) == [k \in 1 .. n |-> [location_id |-> LocationId(k)]]

HistMasterData ==
    { <<SongList(<<MIN_PLAY_MS, MIN_PLAY_MS>>), UserList(1), LocationList(1)>>,
      <<SongList(<<MIN_PLAY_MS + 1>>), UserList(1), LocationList(1)>>,
      <<SongList(<<MIN_PLAY_MS>>), UserList(2), LocationList(1)>>,
      <<SongList(<<MIN_PLAY_MS>>), UserList(1), LocationList(2)>>,
      <<SongList(<<MIN_PLAY_MS - 1, MIN_PLAY_MS>>), UserList(1), LocationList(1)>>,
      <<SongList(<<MIN_PLAY_MS>>), UserList(0), LocationList(1)>>,
      <<SongList(<<>>), UserList(1), LocationList(1)>> }

\* A factory constructed from csv files holding one of HistMasterData.
HistFactoryInit ==
    /\ format = "csv"
    /\ \E m \in HistMasterData :
          /\ files = [n \in {"songs", "users", "locations"} |->
                         [kind |-> "rows",
                          rows |-> IF n = "songs" THEN m[1]
                                   ELSE IF n = "users" THEN m[2] ELSE m[3]]]
          /\ songs = m[1]
          /\ users = m[2]
          /\ locations = m[3]
    /\ f_pc = "ready"
    /\ f_error = ""
    /\ uuid_counter = 0
    /\ clock = 0
    /\ created = NoCall

Volumes == -1 .. MaxVolume

(***************************************************************************)
(* generate_live_events                                                    *)
(***************************************************************************)
LiveIdle ==
    /\ l_pc = "idle"
    /\ l_error = ""
    /\ volume_per_minute = 0
    /\ duration_seconds = 0
    /\ interval = 0
    /\ start_time = 0
    /\ now = 0
    /\ count = 0
    /\ wake_at = 0
    /\ yielded = <<>>

\* the rates explored: not positive, and with intervals of three, two and
\* one second
Rates == {-1, 0, 20, 30, 60}

\* the durations explored: not positive (run for ever), and up to the end of
\* the clock
Durations == -1 .. (MaxClock - 1)

\* line 51, in microseconds. The mutant has no fallback interval.
IntervalNoFallback(rate) ==
    IF rate > 0 THEN (SECONDS_PER_MINUTE * SECOND) \div rate
    ELSE 0
Interval(rate) ==
    IF rate > 0 THEN (SECONDS_PER_MINUTE * SECOND) \div rate
    ELSE FALLBACK_INTERVAL * SECOND

\* generate_live_events(...) is called: a generator object is made, none of
\* its body runs
LiveCall(rate, duration) ==
    /\ f_pc = "ready"
    /\ h_pc = "idle"
    /\ created = NoCall
    /\ l_pc = "idle"
    /\ l_pc' = "created"
    /\ volume_per_minute' = rate
    /\ duration_seconds' = duration
    /\ UNCHANGED <<l_error, interval, start_time, now, count, wake_at, yielded>>
    /\ UNCHANGED <<poster_vars, factory_vars, hist_vars, cli_vars, run_vars, api_vars>>

\* the first next(): lines 51-53
LiveStart ==
    /\ l_pc = "created"
    /\ interval' = Interval(volume_per_minute)
    /\ start_time' = clock
    /\ count' = 0
    /\ l_pc' = "loop"
    /\ UNCHANGED <<l_error, volume_per_minute, duration_seconds, now, wake_at, yielded>>
    /\ UNCHANGED <<poster_vars, factory_vars, hist_vars, cli_vars, run_vars, api_vars>>

\* line 56, the test that ends the generator: a positive duration has
\* elapsed between the readings start and at of the clock. The mutant tests
\* for more than the duration.
DurationExceeded(duration, start, at) ==
    duration > 0 /\ (at - start) > duration * SECOND
DurationElapsed(duration, start, at) ==
    duration > 0 /\ (at - start) >= duration * SECOND

\* lines 55-57: read the clock, leave the loop when the duration has elapsed
LiveCheck ==
    /\ l_pc = "loop"
    /\ now' = clock
    /\ IF DurationElapsed(duration_seconds, start_time, now')
          THEN l_pc' = "done"
          ELSE l_pc' = "create"
    /\ UNCHANGED <<l_error, volume_per_minute, duration_seconds, interval, start_time,
                   count, wake_at, yielded>>
    /\ UNCHANGED <<poster_vars, factory_vars, hist_vars, cli_vars, run_vars, api_vars>>

\* lines 58-59: create the event, stamped with the clock, and yield it
LiveYield ==
    /\ l_pc = "create"
    /\ \E o \in CreateEvent(Now, uuid_counter + 1) :
          IF o.exc # ""
             THEN /\ l_pc' = "raised"
                  /\ l_error' = o.exc
                  /\ UNCHANGED <<yielded, uuid_counter>>
             ELSE /\ l_pc' = "yielded"
                  /\ l_error' = ""
                  /\ yielded' = o.event
                  /\ uuid_counter' = uuid_counter + 1
    /\ UNCHANGED <<volume_per_minute, duration_seconds, interval, start_time, now,
                   count, wake_at>>
    /\ UNCHANGED <<format, files, f_pc, f_error, songs, users, locations, clock, created>>
    /\ UNCHANGED <<poster_vars, hist_vars, cli_vars, run_vars, api_vars>>

\* the consumer asks for the next event: lines 60-61 up to the sleep
LiveResume ==
    /\ l_pc = "yielded"
    /\ count' = count + 1
    /\ wake_at' = clock + interval
    /\ l_pc' = "sleep"
    /\ UNCHANGED <<l_error, volume_per_minute, duration_seconds, interval, start_time,
                   now, yielded>>
    /\ UNCHANGED <<poster_vars, factory_vars, hist_vars, cli_vars, run_vars, api_vars>>

\* time.sleep(interval) returns, not before the interval has passed
LiveWake ==
    /\ l_pc = "sleep"
    /\ clock >= wake_at
    /\ l_pc' = "loop"
    /\ UNCHANGED <<l_error, volume_per_minute, duration_seconds, interval, start_time,
                   now, count, wake_at, yielded>>
    /\ UNCHANGED <<poster_vars, factory_vars, hist_vars, cli_vars, run_vars, api_vars>>

\* A second passes while a live generator is running (nothing else reads the
\* clock after the factory's first use).
Tick ==
    /\ l_pc \in {"loop", "create", "yielded", "sleep"}
    /\ clock + SECOND <= MaxClock * SECOND
    /\ clock' = clock + SECOND
    /\ UNCHANGED <<format, files, f_pc, f_error, songs, users, locations, uuid_counter, created>>
    /\ UNCHANGED <<poster_vars, hist_vars, live_vars, cli_vars, run_vars, api_vars>>

PosterIdle ==
    /\ max_retries = DEFAULT_MAX_RETRIES
    /\ transport = [n \in 1 .. MaxRetries + 1 |-> "ok"]
    /\ p_pc = "idle"
    /\ p_event = 0
    /\ attempt = 0
    /\ attempts = 0
    /\ result = "NoReturn"
    /\ log = <<>>

(***************************************************************************)
(* The simulate command line: cli.py                                       *)
(***************************************************************************)
\* Python's None, where a string can stand
None == "<None>"

\* the strings passed for --start-datetime and --end-datetime
IsoT0 == "1970-01-01T00:00:00"
IsoT2 == "1970-01-01T00:00:00.000002"
IsoT0Utc == "1970-01-01T00:00:00+00:00"
NotIso == "yesterday"

\* datetime.fromisoformat(s): the datetime, or the exception it raises
FromIsoFormat(s) ==
    CASE s = IsoT0 -> [exc |-> "", value |-> [us |-> 0, tz |-> "naive"]]
      [] s = IsoT2 -> [exc |-> "", value |-> [us |-> 2, tz |-> "naive"]]
      [] s = IsoT0Utc -> [exc |-> "", value |-> [us |-> 0, tz |-> "UTC"]]
      [] s = None -> [exc |-> "TypeError", value |-> <<>>]
      [] OTHER -> [exc |-> "ValueError: Invalid isoformat string", value |-> <<>>]

\* validate_positive: TRUE when BadParameter is raised (the options that
\* carry it have a number as their default: value is never None). The mutant
\* lets -1 pass.
RejectsBelowMinusOne(value) == value < -1
RejectsNegative(value) == value < 0

\* validate_datetime: TRUE when BadParameter is raised
RejectsDatetime(value) == value # None /\ FromIsoFormat(value).exc # ""

\* validate_format: TRUE when BadParameter is raised
RejectsFormat(value) == value \notin {"csv", "json"}

\* the options of `run` that carry the validate_positive callback
RunCounts == {"threads", "volume", "posting_rate", "duration_seconds"}

\* the options of `generate-master` that carry the validate_positive callback
MasterCounts == {"num_songs", "num_users", "num_locations"}

\* the parameters of `run` whose callback raises BadParameter
RunRejected(opts) ==
    { n \in RunCounts : RejectsNegative(opts[n]) }
        \cup { n \in {"start_datetime", "end_datetime"} : RejectsDatetime(opts[n]) }
        \cup { n \in {"format"} : RejectsFormat(opts[n]) }

\* the parameters of `generate-master` whose callback raises BadParameter
MasterRejected(opts) ==
    { n \in MasterCounts : RejectsNegative(opts[n]) }
        \cup { n \in {"format"} : RejectsFormat(opts[n]) }

\* `run` with one thread, one event and no mode: the options the explored
\* command lines are varied from
BaseOptions ==
    [threads |-> 1, volume |-> 1, historical |-> FALSE, live |-> FALSE,
     start_datetime |-> None, end_datetime |-> None, posting_rate |-> 10,
     duration_seconds |-> 0, format |-> "csv"]

\* historical runs: every number of threads and events, start and end given
\* or missing, an end in another timezone
HistoricalOptions ==
    { [BaseOptions EXCEPT !.historical = TRUE, !.threads = t, !.volume = v,
                          !.start_datetime = s, !.end_datetime = e] :
        t \in 0 .. MaxThreads, v \in 0 .. MaxRunVolume,
        s \in {None, IsoT0}, e \in {None, IsoT2, IsoT0Utc} }

\* live runs: no thread, one thread and two threads, one event per second or
\* the fallback interval, for ever or for one second
LiveOptions ==
    { [BaseOptions EXCEPT !.live = TRUE, !.threads = t, !.volume = v,
                          !.duration_seconds = d] :
        t \in {0, 1, 2}, v \in {0, 60}, d \in {0, 1} }

\* a historical run of one event with one option changed: to a negative
\* number, to an unknown format, to a string that is no datetime; both
\* modes, or no mode, at once; and three events posted by two threads at a
\* posting rate of one event per second
HistoricalRun ==
    [BaseOptions EXCEPT !.historical = TRUE, !.start_datetime = IsoT0,
                        !.end_datetime = IsoT2]
OtherOptions ==
    { [HistoricalRun EXCEPT ![n] = -1] : n \in RunCounts }
        \cup { [HistoricalRun EXCEPT !.format = "xml"],
               [HistoricalRun EXCEPT !.end_datetime = NotIso],
               [HistoricalRun EXCEPT !.live = TRUE],
               [HistoricalRun EXCEPT !.threads = 2, !.volume = 3, !.posting_rate = 1],
               BaseOptions }

RunOptions == HistoricalOptions \cup LiveOptions \cup OtherOptions

\* historical runs of up to MaxBatch events with up to MaxPartThreads threads
PartitionOptions ==
    { [HistoricalRun EXCEPT !.threads = t, !.volume = v] :
        t \in 0 .. MaxPartThreads, v \in 0 .. MaxBatch }

\* the command lines of `generate-master` explored
MasterOptions ==
    [num_songs : -1 .. MaxRecords, num_users : -1 .. 1, num_locations : -1 .. 1,
     format : Formats]

\* the process is started with a command line; nothing has run
CliInit ==
    /\ c_pc = "invoked"
    /\ \/ command = "run" /\ options \in RunOptions
       \/ command = "generate-master" /\ options \in MasterOptions
    /\ c_error = ""
    /\ m_pc = "idle"

\* the process is started with one of the PartitionOptions
PartitionCliInit ==
    /\ c_pc = "invoked"
    /\ command = "run"
    /\ options \in PartitionOptions
    /\ c_error = ""
    /\ m_pc = "idle"

\* no command line is being processed
CliIdle ==
    /\ c_pc = "idle"
    /\ command = ""
    /\ options = <<>>
    /\ c_error = ""
    /\ m_pc = "idle"

\* generate_song_master_data: duration_ms is faker.random_int(min=90000,
\* max=420000); the ends of that range are explored
GeneratedDurations == {90000, 420000}

\* the file write_master_data_csv / write_master_data_json leaves for the
\* records: the csv writer returns without writing for an empty list
WrittenFile(fmt, old, records) ==
    IF fmt = "csv" /\ records = <<>> THEN old
    ELSE [kind |-> "rows", rows |-> records]

\* generate_master_data_command(num_songs, num_users, num_locations, format),
\* the whole call: the three lists are generated (a negative count raises
\* ValueError), then written in the format
GenerateMasterData(opts) ==
    IF opts.num_songs < 0 \/ opts.num_users < 0 \/ opts.num_locations < 0
       THEN /\ m_pc' = "raised"
            /\ UNCHANGED files
    ELSE IF opts.format \notin {"csv", "json"}
       THEN /\ m_pc' = "returned"
            /\ UNCHANGED files
    ELSE /\ m_pc' = "returned"
         /\ \E d \in [1 .. opts.num_songs -> GeneratedDurations] :
               files' = [n \in {"songs", "users", "locations"} |->
                            WrittenFile(opts.format, files[n],
                                IF n = "songs" THEN SongList(d)
                                ELSE IF n = "users" THEN UserList(opts.num_users)
                                ELSE LocationList(opts.num_locations))]

\* `simulate generate-master ...`: the callbacks of the options run first and
\* the first BadParameter ends the process; otherwise the command function
\* calls generate_master_data_command
CliGenerateMaster ==
    /\ c_pc = "invoked"
    /\ command = "generate-master"
    /\ IF MasterRejected(options) # {}
          THEN /\ c_pc' = "bad_parameter"
               /\ c_error' \in MasterRejected(options)
               /\ UNCHANGED <<m_pc, files>>
          ELSE /\ c_pc' = "in_command"
               /\ c_error' = ""
               /\ GenerateMasterData(options)
    /\ UNCHANGED <<command, options>>
    /\ UNCHANGED <<format, f_pc, f_error, songs, users, locations, uuid_counter, clock, created>>
    /\ UNCHANGED <<poster_vars, hist_vars, live_vars, run_vars, api_vars>>

\* `simulate run ...`: the callbacks of the options run first and the first
\* BadParameter ends the process; otherwise the command function calls
\* run_simulation_command with the option values
CliRun ==
    /\ c_pc = "invoked"
    /\ command = "run"
    /\ IF RunRejected(options) # {}
          THEN /\ c_pc' = "bad_parameter"
               /\ c_error' \in RunRejected(options)
               /\ UNCHANGED <<r_pc, args>>
          ELSE /\ c_pc' = "in_command"
               /\ c_error' = ""
               /\ r_pc' = "called"
               /\ args' = options
    /\ UNCHANGED <<command, options, m_pc>>
    /\ UNCHANGED <<r_error, r_log, chunk_size, thread_list, joined, worker_vars>>
    /\ UNCHANGED <<poster_vars, factory_vars, hist_vars, live_vars, api_vars>>

(***************************************************************************)
(* run_simulation_command: commands.py                                     *)
(***************************************************************************)
Workers == 1 .. MaxPartThreads

\* the records of the "Simulator" logger
ErrorRequired == "ERROR --start-datetime and --end-datetime are required for historical mode."
ErrorNoMode == "ERROR Please specify either --historical or --live mode."
InfoHistoricalStart == "INFO Starting historical simulation"
InfoHistoricalComplete == "INFO Historical simulation complete."
InfoLiveStart == "INFO Starting live simulation"
InfoLiveComplete == "INFO Live simulation complete."

\* run_simulation_command has not been called
RunIdle ==
    /\ r_pc = "idle"
    /\ r_error = ""
    /\ args = <<>>
    /\ r_log = <<>>
    /\ chunk_size = 0
    /\ thread_list = <<>>
    /\ joined = 0
    /\ w_pc = [t \in Workers |-> "unstarted"]
    /\ w_chunk = [t \in Workers |-> <<>>]
    /\ w_pos = [t \in Workers |-> 0]
    /\ w_event = [t \in Workers |-> <<>>]
    /\ w_attempt = [t \in Workers |-> 0]
    /\ w_error = [t \in Workers |-> ""]
    /\ w_start = [t \in Workers |-> 0]
    /\ w_wake = [t \in Workers |-> 0]
    /\ post_calls = <<>>
    /\ deliveries = 0
    /\ window_posts = 0

\* line 70: EventFactory(master_data_dir, format=format)
RunConstruct ==
    /\ r_pc = "called"
    /\ ConstructFactory

\* an exception of the constructor leaves run_simulation_command
RunLoadFailed ==
    /\ r_pc = "called"
    /\ f_pc = "load_failed"
    /\ r_pc' = "raised"
    /\ r_error' = f_error
    /\ UNCHANGED <<args, r_log, chunk_size, thread_list, joined, worker_vars>>
    /\ UNCHANGED <<poster_vars, factory_vars, hist_vars, live_vars, cli_vars, api_vars>>

\* line 78: `not start_datetime or not end_datetime`. The mutant asks for
\* both to be missing.
MissingBoth(a) ==
    a.start_datetime \in {None, ""} /\ a.end_datetime \in {None, ""}
MissingRequired(a) ==
    a.start_datetime \in {None, ""} \/ a.end_datetime \in {None, ""}

\* lines 71-83, 95-96 and 108-109: the mode is chosen; historical mode checks
\* and parses its two datetimes
RunDispatch ==
    /\ r_pc = "called"
    /\ f_pc = "ready"
    /\ IF args.historical
          THEN IF MissingRequired(args)
                  THEN /\ r_log' = Append(r_log, ErrorRequired)
                       /\ r_pc' = "returned"
                       /\ r_error' = ""
                  ELSE /\ r_log' = Append(r_log, InfoHistoricalStart)
                       /\ LET start == FromIsoFormat(args.start_datetime)
                              end == FromIsoFormat(args.end_datetime)
                          IN  IF start.exc # ""
                                 THEN r_pc' = "raised" /\ r_error' = start.exc
                              ELSE IF end.exc # ""
                                 THEN r_pc' = "raised" /\ r_error' = end.exc
                              ELSE r_pc' = "generate" /\ r_error' = ""
       ELSE IF args.live
          THEN /\ r_log' = Append(r_log, InfoLiveStart)
               /\ r_pc' = "spawn"
               /\ r_error' = ""
       ELSE /\ r_log' = Append(r_log, ErrorNoMode)
            /\ r_pc' = "returned"
            /\ r_error' = ""
    /\ UNCHANGED <<args, chunk_size, thread_list, joined, worker_vars>>
    /\ UNCHANGED <<poster_vars, factory_vars, hist_vars, live_vars, cli_vars, api_vars>>

\* line 84: generate_historical_events(event_factory, start_dt, end_dt, volume)
RunGenerate ==
    /\ r_pc = "generate"
    /\ HistCall(FromIsoFormat(args.start_datetime).value,
                FromIsoFormat(args.end_datetime).value, args.volume)

\* an exception of generate_historical_events leaves run_simulation_command
RunGenerateRaised ==
    /\ r_pc = "generate"
    /\ h_pc = "raised"
    /\ r_pc' = "raised"
    /\ r_error' = h_error
    /\ UNCHANGED <<args, r_log, chunk_size, thread_list, joined, worker_vars>>
    /\ UNCHANGED <<poster_vars, factory_vars, hist_vars, live_vars, cli_vars, api_vars>>

\* Python's a // b for b # 0: the floor of the quotient
FloorDiv(a, b) == IF b > 0 THEN a \div b ELSE (0 - a) \div (0 - b)

\* line 85: (len(events) + threads - 1) // threads. The mutant rounds down.
ChunkSizeFloor(len, threads) == FloorDiv(len, threads)
ChunkSize(len, threads) == FloorDiv(len + threads - 1, threads)

Min(a, b) == IF a <= b THEN a ELSE b

\* Python's seq[a:b] for 0 <= a. The mutant is seq[a:].
SliceToEnd(seq, a, b) == SubSeq(seq, Min(a, Len(seq)) + 1, Len(seq))
Slice(seq, a, b) == SubSeq(seq, Min(a, Len(seq)) + 1, Min(b, Len(seq)))

\* lines 85-86: the chunk size; the division raises for threads = 0
RunChunk ==
    /\ r_pc = "generate"
    /\ h_pc = "returned"
    /\ IF args.threads = 0
          THEN /\ r_pc' = "raised"
               /\ r_error' = "ZeroDivisionError"
               /\ UNCHANGED chunk_size
          ELSE /\ r_pc' = "spawn"
               /\ r_error' = ""
               /\ chunk_size' = ChunkSize(Len(events), args.threads)
    /\ UNCHANGED <<args, r_log, thread_list, joined, worker_vars>>
    /\ UNCHANGED <<poster_vars, factory_vars, hist_vars, live_vars, cli_vars, api_vars>>

\* lines 87-91 and 101-104, one iteration: a thread is made and started; a
\* historical thread is given the chunk events[i*chunk_size:(i+1)*chunk_size]
RunSpawn ==
    /\ r_pc = "spawn"
    /\ Len(thread_list) < args.threads
    /\ LET i == Len(thread_list)
           t == i + 1
       IN  /\ thread_list' = Append(thread_list, t)
           /\ w_pc' = [w_pc EXCEPT ![t] = "running"]
           /\ w_chunk' = [w_chunk EXCEPT ![t] =
                             IF args.historical
                                THEN Slice(events, i * chunk_size, (i + 1) * chunk_size)
                                ELSE <<>>]
    /\ UNCHANGED <<r_pc, r_error, args, r_log, chunk_size, joined>>
    /\ UNCHANGED <<w_pos, w_event, w_attempt, w_error, w_start, w_wake,
                   post_calls, deliveries, window_posts>>
    /\ UNCHANGED <<poster_vars, factory_vars, hist_vars, live_vars, cli_vars, api_vars>>

\* t.join() returns once the thread has ended. The mutant returns at once.
JoinReturnsAtOnce(t) == TRUE
JoinReturns(t) == w_pc[t] = "finished"

\* lines 92-93 and 105-106, one iteration, after the last thread was started
RunJoin ==
    /\ r_pc = "spawn"
    /\ Len(thread_list) >= args.threads
    /\ joined < Len(thread_list)
    /\ JoinReturns(thread_list[joined + 1])
    /\ joined' = joined + 1
    /\ UNCHANGED <<r_pc, r_error, args, r_log, chunk_size, thread_list, worker_vars>>
    /\ UNCHANGED <<poster_vars, factory_vars, hist_vars, live_vars, cli_vars, api_vars>>

\* lines 94 and 107: every join has returned, completion is logged and
\* run_simulation_command returns
RunComplete ==
    /\ r_pc = "spawn"
    /\ Len(thread_list) >= args.threads
    /\ joined = Len(thread_list)
    /\ r_log' = Append(r_log, IF args.historical THEN InfoHistoricalComplete
                              ELSE InfoLiveComplete)
    /\ r_pc' = "returned"
    /\ UNCHANGED <<r_error, args, chunk_size, thread_list, joined, worker_vars>>
    /\ UNCHANGED <<poster_vars, factory_vars, hist_vars, live_vars, cli_vars, api_vars>>

(***************************************************************************)
(* The worker threads: post_events and live_worker of commands.py, each    *)
(* running APIPoster.post_event on the shared api_poster                   *)
(***************************************************************************)
\* one more invocation of post_event with the event
Counted(calls, event_id) ==
    IF event_id \in DOMAIN calls
       THEN [calls EXCEPT ![event_id] = @ + 1]
       ELSE calls @@ (event_id :> 1)

\* time.sleep(interval) in the generator of thread t (simulation_engine.py
\* line 61), begun at the clock reading `at`: the thread's own sleep. The
\* mutant puts every thread to sleep until then.
SleepAll(wake, t, at) == [u \in DOMAIN wake |-> at + Interval(args.volume)]
Sleep(wake, t, at) == [wake EXCEPT ![t] = at + Interval(args.volume)]

\* where the thread goes on when post_event has returned: the next event of
\* the chunk, or the live generator's time.sleep
AfterPost(t) ==
    /\ w_event' = [w_event EXCEPT ![t] = <<>>]
    /\ w_attempt' = [w_attempt EXCEPT ![t] = 0]
    /\ IF args.historical
          THEN /\ w_pc' = [w_pc EXCEPT ![t] = "running"]
               /\ UNCHANGED w_wake
          ELSE /\ w_pc' = [w_pc EXCEPT ![t] = "sleep"]
               /\ w_wake' = Sleep(w_wake, t, clock)

\* post_event(event) is entered by thread t (api_poster.py lines 33-34)
EnterPostEvent(t, event) ==
    /\ post_calls' = Counted(post_calls, event.event_id)
    /\ IF AttemptRange(max_retries) = {}
          THEN /\ w_pc' = [w_pc EXCEPT ![t] = IF args.historical THEN "running" ELSE "sleep"]
               /\ w_wake' = IF args.historical THEN w_wake ELSE Sleep(w_wake, t, clock)
               /\ UNCHANGED <<w_event, w_attempt>>
          ELSE /\ w_pc' = [w_pc EXCEPT ![t] = "posting"]
               /\ w_event' = [w_event EXCEPT ![t] = event]
               /\ w_attempt' = [w_attempt EXCEPT ![t] = 1]
               /\ UNCHANGED w_wake

\* `for event in events` (line 74): the event the loop takes after pos
\* events. The mutant walks the chunk from its end.
NextEventFromEnd(chunk, pos) == chunk[Len(chunk) - pos]
NextEvent(chunk, pos) == chunk[pos + 1]

\* post_events, lines 74-75: the next event of the chunk is handed to
\* post_event; after the last one the thread ends
HistWorkerStep(t) ==
    /\ args # <<>>
    /\ args.historical
    /\ w_pc[t] = "running"
    /\ IF w_pos[t] < Len(w_chunk[t])
          THEN /\ w_pos' = [w_pos EXCEPT ![t] = @ + 1]
               /\ EnterPostEvent(t, NextEvent(w_chunk[t], w_pos[t]))
          ELSE /\ w_pc' = [w_pc EXCEPT ![t] = "finished"]
               /\ UNCHANGED <<w_pos, w_event, w_attempt, w_wake, post_calls>>
    /\ UNCHANGED <<w_chunk, w_error, w_start, deliveries, window_posts>>
    /\ UNCHANGED dispatch_vars
    /\ UNCHANGED <<poster_vars, factory_vars, hist_vars, live_vars, cli_vars, api_vars>>

\* one iteration of the for loop of post_event in thread t (api_poster.py
\* lines 34-46): the request, then return True, or the except branch
WorkerAttempt(t) ==
    /\ w_pc[t] = "posting"
    /\ deliveries' = deliveries + 1
    /\ window_posts' = window_posts + 1
    /\ \E outcome \in Outcomes :
          IF outcome = "ok"
             THEN AfterPost(t)
             ELSE IF w_attempt[t] = max_retries
                     THEN AfterPost(t)
                     ELSE /\ w_attempt' = [w_attempt EXCEPT ![t] = @ + 1]
                          /\ UNCHANGED <<w_pc, w_event, w_wake>>
    /\ UNCHANGED <<w_chunk, w_pos, w_error, w_start, post_calls>>
    /\ UNCHANGED dispatch_vars
    /\ UNCHANGED <<poster_vars, factory_vars, hist_vars, live_vars, cli_vars, api_vars>>

\* the run is in live mode (line 95): the elif of `if historical`. The
\* mutant looks at the live flag alone.
LiveFlagSet == args # <<>> /\ args.live
LiveMode == args # <<>> /\ ~args.historical /\ args.live

\* live_worker, the first next() of its generator: simulation_engine.py
\* lines 51-53
LiveWorkerStart(t) ==
    /\ LiveMode
    /\ w_pc[t] = "running"
    /\ w_pc' = [w_pc EXCEPT ![t] = "loop"]
    /\ w_start' = [w_start EXCEPT ![t] = clock]
    /\ UNCHANGED <<w_chunk, w_pos, w_event, w_attempt, w_error, w_wake,
                   post_calls, deliveries, window_posts>>
    /\ UNCHANGED dispatch_vars
    /\ UNCHANGED <<poster_vars, factory_vars, hist_vars, live_vars, cli_vars, api_vars>>

\* lines 55-57 in thread t: the generator ends when the duration has elapsed,
\* which ends the for loop of live_worker and the thread
LiveWorkerCheck(t) ==
    /\ w_pc[t] = "loop"
    /\ w_pc' = [w_pc EXCEPT ![t] =
                   IF DurationElapsed(args.duration_seconds, w_start[t], clock)
                      THEN "finished" ELSE "create"]
    /\ UNCHANGED <<w_chunk, w_pos, w_event, w_attempt, w_error, w_start, w_wake,
                   post_calls, deliveries, window_posts>>
    /\ UNCHANGED dispatch_vars
    /\ UNCHANGED <<poster_vars, factory_vars, hist_vars, live_vars, cli_vars, api_vars>>

\* lines 58-59 in thread t, and line 99 of commands.py: the event is created
\* and handed to post_event; an exception of create_event ends the thread
LiveWorkerYield(t) ==
    /\ w_pc[t] = "create"
    /\ \E o \in CreateEvent(Now, uuid_counter + 1) :
          IF o.exc # ""
             THEN /\ w_pc' = [w_pc EXCEPT ![t] = "finished"]
                  /\ w_error' = [w_error EXCEPT ![t] = o.exc]
                  /\ UNCHANGED <<w_event, w_attempt, w_wake, post_calls, uuid_counter>>
             ELSE /\ EnterPostEvent(t, o.event)
                  /\ uuid_counter' = uuid_counter + 1
                  /\ UNCHANGED w_error
    /\ UNCHANGED <<w_chunk, w_pos, w_start, deliveries, window_posts>>
    /\ UNCHANGED dispatch_vars
    /\ UNCHANGED <<format, files, f_pc, f_error, songs, users, locations, clock, created>>
    /\ UNCHANGED <<poster_vars, hist_vars, live_vars, cli_vars, api_vars>>

\* time.sleep(interval) of thread t returns, not before the interval has
\* passed (lines 60-61)
LiveWorkerWake(t) ==
    /\ w_pc[t] = "sleep"
    /\ clock >= w_wake[t]
    /\ w_pc' = [w_pc EXCEPT ![t] = "loop"]
    /\ UNCHANGED <<w_chunk, w_pos, w_event, w_attempt, w_error, w_start, w_wake,
                   post_calls, deliveries, window_posts>>
    /\ UNCHANGED dispatch_vars
    /\ UNCHANGED <<poster_vars, factory_vars, hist_vars, live_vars, cli_vars, api_vars>>

\* A second passes while the threads of a run are started, run and are
\* joined: a new one-second window begins.
RunTick ==
    /\ r_pc = "spawn"
    /\ clock + SECOND <= MaxRunClock * SECOND
    /\ clock' = clock + SECOND
    /\ window_posts' = 0
    /\ UNCHANGED <<w_pc, w_chunk, w_pos, w_event, w_attempt, w_error, w_start, w_wake,
                   post_calls, deliveries>>
    /\ UNCHANGED dispatch_vars
    /\ UNCHANGED <<format, files, f_pc, f_error, songs, users, locations, uuid_counter, created>>
    /\ UNCHANGED <<poster_vars, hist_vars, live_vars, cli_vars, api_vars>>

\* the master data directories a run is started on: a playable song, a song
\* shorter than MIN_PLAY_MS, no users; and a songs file that cannot be decoded
RunMasterData ==
    { [n \in {"songs", "users", "locations"} |->
          [kind |-> "rows",
           rows |-> IF n = "songs" THEN m[1] ELSE IF n = "users" THEN m[2] ELSE m[3]]] :
        m \in { <<SongList(<<MIN_PLAY_MS>>), UserList(1), LocationList(1)>>,
                <<SongList(<<MIN_PLAY_MS - 1>>), UserList(1), LocationList(1)>>,
                <<SongList(<<MIN_PLAY_MS>>), UserList(0), LocationList(1)>> } }
        \cup { [n \in {"songs", "users", "locations"} |->
                  IF n = "songs" THEN [kind |-> "malformed", rows |-> <<>>]
                  ELSE [kind |-> "rows",
                        rows |-> IF n = "users" THEN UserList(1) ELSE LocationList(1)]] }

\* the master data directory a command line is run on, nothing loaded
RunFilesInit ==
    /\ files \in RunMasterData
    /\ format = (IF command = "run" THEN options.format ELSE "csv")
    /\ f_pc = "new"
    /\ f_error = ""
    /\ songs = <<>>
    /\ users = <<>>
    /\ locations = <<>>
    /\ uuid_counter = 0
    /\ clock = 0
    /\ created = NoCall

(***************************************************************************)
(* The ingestion API (ingestion/api/app.py) and KafkaInterface             *)
(* (streaming/kafka.py)                                                    *)
(***************************************************************************)
Requests == 1 .. MaxRequests

PlayEventFields ==
    {"event_id", "song_id", "user_id", "location_id", "played_at",
     "play_duration_ms", "device_type"}

\* the JSON bodies posted to /play: the events "e1" and "e2" with a naive or
\* an aware played_at string, a body whose played_at is no datetime, and a
\* body without device_type
PlayBody(event_id, played_at) ==
    [event_id |-> event_id, song_id |-> "song-1", user_id |-> "user-1",
     location_id |-> "loc-1", played_at |-> played_at,
     play_duration_ms |-> MIN_PLAY_MS, device_type |-> "mobile"]
ApiBodies ==
    { PlayBody(e, at) : e \in {"e1", "e2"}, at \in {IsoT0Utc, IsoT2} }
        \cup { PlayBody("e1", NotIso) }
        \cup { [event_id |-> "e1", song_id |-> "song-1", user_id |-> "user-1",
                location_id |-> "loc-1", played_at |-> IsoT0Utc,
                play_duration_ms |-> MIN_PLAY_MS] }

\* FastAPI validates the body against PlayEventData before the handler runs
ValidBody(body) ==
    /\ DOMAIN body = PlayEventFields
    /\ FromIsoFormat(body.played_at).exc = ""

\* the PlayEventData parsed from a valid body
ParseBody(body) == [body EXCEPT !.played_at = FromIsoFormat(body.played_at).value]

\* a datetime in model_dump(mode='json'): ISO 8601, UTC written as Z
DatetimeToJson(dt) ==
    IF dt.tz = "UTC" THEN <<"1970-01-01T00:00:00", dt.us, "Z">>
    ELSE <<"1970-01-01T00:00:00", dt.us>>

\* event.model_dump(mode='json')
ModelDumpJson(event) == [event EXCEPT !.played_at = DatetimeToJson(event.played_at)]

\* the responses of POST /play. The mutant answers a failed forward with the
\* success response.
Created(event) ==
    [status |-> 201, body |-> [message |-> "Play event received", event_id |-> event.event_id]]
Unprocessable == [status |-> 422, body |-> [detail |-> "validation error"]]
FailedAsCreated(event) == Created(event)
Failed(event) ==
    [status |-> 500, body |-> [detail |-> "Failed to forward event to Kafka."]]

\* the app is imported: kafka = KafkaInterface() with no producer, no request
ApiInit ==
    /\ a_pc = [q \in Requests |-> "none"]
    /\ a_event = [q \in Requests |-> <<>>]
    /\ a_response = [q \in Requests |-> <<>>]
    /\ produce_calls = [q \in Requests |-> 0]
    /\ a_forward = [q \in Requests |-> ""]
    /\ producer = 0
    /\ a_producer = [q \in Requests |-> 0]
    /\ producers_made = 0
    /\ topic = <<>>
    /\ api_log = 0

\* a POST /play request arrives with a body
ApiReceive(q, body) ==
    /\ a_pc[q] = "none"
    /\ IF ValidBody(body)
          THEN /\ a_pc' = [a_pc EXCEPT ![q] = "handler"]
               /\ a_event' = [a_event EXCEPT ![q] = ParseBody(body)]
               /\ UNCHANGED a_response
          ELSE /\ a_pc' = [a_pc EXCEPT ![q] = "responded"]
               /\ a_response' = [a_response EXCEPT ![q] = Unprocessable]
               /\ UNCHANGED a_event
    /\ UNCHANGED <<produce_calls, a_forward, producer, a_producer, producers_made,
                   topic, api_log>>
    /\ UNCHANGED <<poster_vars, factory_vars, hist_vars, live_vars, cli_vars, run_vars>>

\* app.py line 26 up to kafka.py line 40: kafka.produce is called, serialises
\* the message and reads the producer property, which tests self._producer
ApiProduce(q) ==
    /\ a_pc[q] = "handler"
    /\ produce_calls' = [produce_calls EXCEPT ![q] = @ + 1]
    /\ a_pc' = [a_pc EXCEPT ![q] = IF producer = 0 THEN "construct" ELSE "send"]
    /\ a_producer' = [a_producer EXCEPT ![q] = producer]
    /\ UNCHANGED <<a_event, a_response, a_forward, producer, producers_made, topic, api_log>>
    /\ UNCHANGED <<poster_vars, factory_vars, hist_vars, live_vars, cli_vars, run_vars>>

\* app.py lines 28-30: the exception of kafka.produce is logged and answered
\* with 500. The mutant calls kafka.produce again.
ForwardFailedRetry(q) ==
    /\ a_forward' = [a_forward EXCEPT ![q] = "raised"]
    /\ api_log' = api_log + 1
    /\ a_pc' = [a_pc EXCEPT ![q] = "handler"]
    /\ UNCHANGED a_response
ForwardFailed(q) ==
    /\ a_forward' = [a_forward EXCEPT ![q] = "raised"]
    /\ api_log' = api_log + 1
    /\ a_pc' = [a_pc EXCEPT ![q] = "responded"]
    /\ a_response' = [a_response EXCEPT ![q] = Failed(a_event[q])]

\* kafka.py lines 41-46: Producer(conf) is constructed and stored, or raises
ApiConstruct(q) ==
    /\ a_pc[q] = "construct"
    /\ \/ /\ producers_made' = producers_made + 1
          /\ producer' = producers_made + 1
          /\ a_producer' = [a_producer EXCEPT ![q] = producer']
          /\ a_pc' = [a_pc EXCEPT ![q] = "send"]
          /\ UNCHANGED <<a_response, a_forward, api_log>>
       \/ /\ ForwardFailed(q)
          /\ UNCHANGED <<producer, a_producer, producers_made>>
    /\ UNCHANGED <<a_event, produce_calls, topic>>
    /\ UNCHANGED <<poster_vars, factory_vars, hist_vars, live_vars, cli_vars, run_vars>>

\* kafka.py lines 117-134 and app.py line 27: producer.produce takes the
\* message and poll(0) runs, then 201 is answered; or producer.produce
\* raises (BufferError, KafkaException)
ApiSend(q) ==
    /\ a_pc[q] = "send"
    /\ \/ /\ topic' = Append(topic, ModelDumpJson(a_event[q]))
          /\ a_forward' = [a_forward EXCEPT ![q] = "returned"]
          /\ a_pc' = [a_pc EXCEPT ![q] = "responded"]
          /\ a_response' = [a_response EXCEPT ![q] = Created(a_event[q])]
          /\ UNCHANGED api_log
       \/ /\ ForwardFailed(q)
          /\ UNCHANGED topic
    /\ UNCHANGED <<a_event, produce_calls, producer, a_producer, producers_made>>
    /\ UNCHANGED <<poster_vars, factory_vars, hist_vars, live_vars, cli_vars, run_vars>>

(***************************************************************************)
(* post_event against the ingestion API: each httpx.post of the call is a  *)
(* POST /play request of its own                                           *)
(***************************************************************************)
\* one APIPoster whose endpoint is the ingestion API; a request per attempt
DeliveryPosterInit ==
    /\ max_retries \in 0 .. MaxRequests
    /\ transport = [n \in 1 .. MaxRetries + 1 |-> "ok"]
    /\ p_pc = "idle"
    /\ p_event = 0
    /\ attempt = 0
    /\ attempts = 0
    /\ result = "NoReturn"
    /\ log = <<>>

\* the request of the running attempt, numbered by the attempts made before
InFlight == attempts + 1

\* api_poster.py lines 36-40: httpx.post encodes event.model_dump() as the
\* JSON body and sends it; the request arrives at POST /play
DeliverySend ==
    /\ p_pc = "loop"
    /\ ApiReceive(InFlight, PlayBody(p_event, IsoT0Utc))

\* response.raise_for_status() (line 41): TRUE when it raises. The mutant
\* never raises.
RaisesForNoStatus(status) == FALSE
RaisesForStatus(status) == status \notin 200 .. 299

\* api_poster.py lines 36-46, the end of one attempt. httpx.post raises
\* without a request having arrived (the body cannot be encoded, no
\* connection), or it raises on its timeout while the API is still at
\* work or after it has answered, or the response is received and
\* raise_for_status decides.
DeliveryAttemptEnd ==
    /\ p_pc = "loop"
    /\ attempts' = attempts + 1
    /\ \/ AttemptFailed
       \/ /\ a_pc[InFlight] = "responded"
          /\ IF RaisesForStatus(a_response[InFlight].status)
                THEN AttemptFailed
                ELSE AttemptSucceeded
    /\ UNCHANGED <<max_retries, transport, p_event>>
    /\ UNCHANGED <<factory_vars, hist_vars, live_vars, cli_vars, run_vars, api_vars>>

(***************************************************************************)
(* Specifications                                                          *)
(***************************************************************************)
PosterNext ==
    \/ \E e \in EventIds : PostEventCall(e)
    \/ PostEventAttempt

\* one APIPoster and one post_event call
InitPoster ==
    PosterInit /\ FactoryIdle /\ HistIdle /\ LiveIdle /\ CliIdle /\ RunIdle /\ ApiInit

SpecPoster == InitPoster /\ [][PosterNext]_vars

FactoryNext ==
    \/ ConstructFactory
    \/ \E t \in CallTimes : CreateEventCall(t)

\* a master data directory, the construction of a factory on it and direct
\* create_event calls
InitFactory ==
    FactoryInit /\ PosterIdle /\ HistIdle /\ LiveIdle /\ CliIdle /\ RunIdle /\ ApiInit

SpecFactory == InitFactory /\ [][FactoryNext]_vars

GenNext ==
    \/ \E t \in CallTimes : CreateEventCall(t)
    \/ \E start \in Datetimes, end \in Datetimes, vol \in Volumes : HistCall(start, end, vol)
    \/ HistStep
    \/ HistReturn
    \/ \E rate \in Rates, duration \in Durations : LiveCall(rate, duration)
    \/ LiveStart
    \/ LiveCheck
    \/ LiveYield
    \/ LiveResume
    \/ LiveWake
    \/ Tick

InitGen ==
    HistFactoryInit /\ PosterIdle /\ HistIdle /\ LiveIdle /\ CliIdle /\ RunIdle /\ ApiInit

\* a constructed factory used for a direct create_event call, for one
\* generate_historical_events call or by one generate_live_events generator
SpecGen == InitGen /\ [][GenNext]_vars

RunNext ==
    \/ CliGenerateMaster
    \/ CliRun
    \/ RunConstruct
    \/ RunLoadFailed
    \/ RunDispatch
    \/ RunGenerate
    \/ HistStep
    \/ HistReturn
    \/ RunGenerateRaised
    \/ RunChunk
    \/ RunSpawn
    \/ RunJoin
    \/ RunComplete
    \/ \E t \in Workers : HistWorkerStep(t)
    \/ \E t \in Workers : WorkerAttempt(t)
    \/ \E t \in Workers : LiveWorkerStart(t)
    \/ \E t \in Workers : LiveWorkerCheck(t)
    \/ \E t \in Workers : LiveWorkerYield(t)
    \/ \E t \in Workers : LiveWorkerWake(t)
    \/ RunTick

InitRun ==
    CliInit /\ RunFilesInit /\ PosterIdle /\ HistIdle /\ LiveIdle /\ RunIdle /\ ApiInit

\* one `simulate` command line, run on a master data directory: the
\* callbacks, the command, and for `run` the dispatcher and its worker threads
SpecRun == InitRun /\ [][RunNext]_vars

PartitionNext ==
    \/ CliRun
    \/ RunConstruct
    \/ RunLoadFailed
    \/ RunDispatch
    \/ RunGenerate
    \/ HistStep
    \/ HistReturn
    \/ RunGenerateRaised
    \/ RunChunk
    \/ RunSpawn

InitPartition ==
    PartitionCliInit /\ RunFilesInit /\ PosterIdle /\ HistIdle /\ LiveIdle /\ RunIdle /\ ApiInit

\* a historical `simulate run`, followed until every thread has been started
\* with its chunk (commands.py line 91); the threads are not scheduled
SpecPartition == InitPartition /\ [][PartitionNext]_vars

DeliveryNext ==
    \/ \E e \in EventIds : PostEventCall(e)
    \/ DeliverySend
    \/ DeliveryAttemptEnd
    \/ \E q \in Requests : ApiProduce(q)
    \/ \E q \in Requests : ApiConstruct(q)
    \/ \E q \in Requests : ApiSend(q)

InitDelivery ==
    DeliveryPosterInit /\ FactoryIdle /\ HistIdle /\ LiveIdle /\ CliIdle /\ RunIdle /\ ApiInit

\* one post_event call of an APIPoster whose endpoint is POST /play of the
\* ingestion API
SpecDelivery == InitDelivery /\ [][DeliveryNext]_vars

ApiNext ==
    \/ \E q \in Requests, body \in ApiBodies : ApiReceive(q, body)
    \/ \E q \in Requests : ApiProduce(q)
    \/ \E q \in Requests : ApiConstruct(q)
    \/ \E q \in Requests : ApiSend(q)

InitApi ==
    ApiInit /\ PosterIdle /\ FactoryIdle /\ HistIdle /\ LiveIdle /\ CliIdle /\ RunIdle

\* the ingestion API serving POST /play requests in its thread pool
SpecApi == InitApi /\ [][ApiNext]_vars

(***************************************************************************)
(* Properties                                                              *)
(***************************************************************************)
\* attempts of the call on which the transport answers "ok", among the
\* first max_retries
OkAttempts == { n \in 1 .. max_retries : transport[n] = "ok" }
FirstOk == CHOOSE k \in OkAttempts : \A n \in OkAttempts : k <= n

\* C1: with max_retries >= 1, a transport that fails on every attempt gets
\* exactly max_retries attempts and post_event returns False; a transport
\* whose first success is attempt k <= max_retries gets exactly k attempts,
\* post_event returns True, and no attempt follows the successful one.
C1_ExactAttempts ==
    max_retries >= 1 =>
        /\ OkAttempts # {} => attempts <= FirstOk
        /\ attempts <= max_retries
        /\ p_pc = "returned" =>
              IF OkAttempts = {}
                 THEN attempts = max_retries /\ result = "False"
                 ELSE attempts = FirstOk /\ result = "True"

\* post_event returned True on the second of three allowed attempts
C1_Witness ==
    /\ p_pc = "returned"
    /\ max_retries = 3
    /\ transport[1] # "ok"
    /\ attempts = 2
    /\ result = "True"

\* C2: for every max_retries >= 0 and every pattern of failures, post_event
\* returns the boolean True or the boolean False: True only if some attempt
\* succeeded, False whenever none did.
C2_ReturnsBoolean ==
    p_pc = "returned" =>
        /\ result \in {"True", "False"}
        /\ result = "True" <=> (\E n \in 1 .. attempts : transport[n] = "ok")

\* a direct create_event call has been made and has ended
Called == created # NoCall

SongsWithId(id) == { k \in 1 .. Len(songs) : songs[k].song_id = id }

\* C3: every event create_event returns has 0 < play_duration_ms <=
\* duration_ms of the song whose song_id it carries.
C3_PlayDurationWithinSong ==
    created.event # <<>> =>
        /\ SongsWithId(created.event.song_id) # {}
        /\ \A k \in SongsWithId(created.event.song_id) :
              /\ 0 < created.event.play_duration_ms
              /\ created.event.play_duration_ms <= songs[k].duration_ms

\* an event for the shorter of two songs, played to the song's end
C3_Witness ==
    /\ created.event # <<>>
    /\ Len(songs) = 2
    /\ \E k \in 1 .. 2 :
          /\ songs[k].song_id = created.event.song_id
          /\ songs[k].duration_ms < songs[3 - k].duration_ms
          /\ created.event.play_duration_ms = songs[k].duration_ms

\* C4: play_duration_ms is drawn from [10000, song.duration_ms]; for a song
\* shorter than 10000 ms the lower bound is clamped to the song's duration
\* and a valid event is still returned. Stated for the calls whose every
\* song is shorter than 10000 ms and for the events returned.
C4_ShortSongClamped ==
    /\ (Called /\ ~MasterDataEmpty /\ \A k \in 1 .. Len(songs) : songs[k].duration_ms < 10000)
          => created.event # <<>>
    /\ created.event # <<>> =>
          \A k \in SongsWithId(created.event.song_id) :
              /\ created.event.play_duration_ms <= songs[k].duration_ms
              /\ created.event.play_duration_ms >=
                    (IF songs[k].duration_ms < 10000 THEN songs[k].duration_ms ELSE 10000)

\* C5: with songs, users and locations all non-empty create_event returns an
\* event and never fails.
C5_OnlyEmptyDataFails ==
    (Called /\ songs # <<>> /\ users # <<>> /\ locations # <<>>) => created.exc = ""

\* some master data file is well-formed and holds no record, and none is
\* undecodable
LoadsEmpty ==
    /\ format \in {"csv", "json"}
    /\ \A n \in DOMAIN files : files[n].kind # "malformed"
    /\ \E n \in DOMAIN files : files[n].kind = "nodata" \/ files[n].rows = <<>>

\* C6: when a collection loads as empty the construction of the factory
\* succeeds, and every create_event call raises the empty-data ValueError and
\* returns no event.
C6_EmptyRejectedAtCreate ==
    LoadsEmpty =>
        /\ f_pc # "load_failed"
        /\ f_error = ""
        /\ created.event = <<>>
        /\ uuid_counter = 0
        /\ Called => created.exc = "ValueError: Master data is empty"

\* songs are loaded, the users file holds no row, and a call has raised
C6_Witness ==
    /\ f_pc = "ready"
    /\ Len(songs) = 2
    /\ files["users"].kind = "rows"
    /\ users = <<>>
    /\ locations # <<>>
    /\ created.exc = "ValueError: Master data is empty"

ReferencesMasterData(e) ==
    /\ \E k \in 1 .. Len(songs) : songs[k].song_id = e.song_id
    /\ \E k \in 1 .. Len(users) : users[k].user_id = e.user_id
    /\ \E k \in 1 .. Len(locations) : locations[k].location_id = e.location_id
    /\ e.device_type \in {"mobile", "desktop", "tablet"}

\* C7: every event of create_event, returned to a direct caller, collected
\* by the historical generator or yielded by the live generator, carries the identifiers of a loaded song, a
\* loaded user and a loaded location and a device type among mobile, desktop
\* and tablet.
C7_ValidReferences ==
    /\ created.event # <<>> => ReferencesMasterData(created.event)
    /\ \A k \in 1 .. Len(events) : ReferencesMasterData(events[k])
    /\ yielded # <<>> => ReferencesMasterData(yielded)

\* three generated events that use both loaded songs
C7_Witness ==
    /\ h_pc = "returned"
    /\ Len(events) = 3
    /\ Len(songs) = 2
    /\ events[1].song_id # events[3].song_id

\* every song can be played for MIN_PLAY_MS
AllSongsPlayable == \A k \in 1 .. Len(songs) : songs[k].duration_ms >= 10000

StartBeforeEnd ==
    /\ start_datetime # <<>>
    /\ start_datetime.tz = end_datetime.tz
    /\ start_datetime.us < end_datetime.us

\* C9: for volume >= 1 and start < end the played_at timestamps of the
\* events are non-decreasing in list order and the first one equals start.
C9_NonDecreasingFromStart ==
    (volume >= 1 /\ StartBeforeEnd) =>
        /\ h_pc = "returned" => Len(events) >= 1
        /\ Len(events) >= 1 => events[1].played_at = start_datetime
        /\ \A j \in 1 .. Len(events) : \A k \in j .. Len(events) :
              /\ events[j].played_at.tz = events[k].played_at.tz
              /\ events[j].played_at.us <= events[k].played_at.us

\* three events over two microseconds: the last one is later than the first
C9_Witness ==
    /\ h_pc = "returned"
    /\ StartBeforeEnd
    /\ volume = 3
    /\ end_datetime.us - start_datetime.us = 2
    /\ events[3].played_at.us > events[1].played_at.us

\* ts is within half a microsecond of start + span * idx / vol
NearestTick(ts, start, span, idx, vol) ==
    LET err == 2 * (vol * (ts - start) - span * idx)
    IN  err <= vol /\ -err <= vol

\* C10: the event at index i of generate_historical_events is stamped
\* start + (end - start) * (i / volume), whatever is drawn at random; with
\* end = start every event is stamped start.
C10_LinearTimestamps ==
    h_pc \in {"loop", "returned"} =>
        \A k \in 1 .. Len(events) :
            /\ events[k].played_at.tz = start_datetime.tz
            /\ NearestTick(events[k].played_at.us, start_datetime.us,
                           end_datetime.us - start_datetime.us, k - 1, volume)
            /\ end_datetime = start_datetime => events[k].played_at = start_datetime

\* three events over two microseconds, stamped start, start + 1, start + 1
C10_Witness ==
    /\ h_pc = "returned"
    /\ volume = 3
    /\ end_datetime.us - start_datetime.us = 2
    /\ events[1].played_at.us = start_datetime.us
    /\ events[2].played_at.us = start_datetime.us + 1
    /\ events[3].played_at.us = start_datetime.us + 1

\* run_simulation_command was called in historical mode
InHistoricalRun == args # <<>> /\ args.historical

\* the dispatcher has reported completion
Completed ==
    /\ r_log # <<>>
    /\ r_log[Len(r_log)] \in {InfoHistoricalComplete, InfoLiveComplete}

\* run_simulation_command has ended, by a return or by an exception
RunEnded == r_pc \in {"returned", "raised"}

\* every master data file is well-formed and holds a record
NonEmptyReferenceData ==
    \A n \in DOMAIN files : files[n].kind = "rows" /\ files[n].rows # <<>>

\* C11: in historical mode post_event is invoked exactly once for every
\* generated event, whatever the outcome of the delivery of any other event:
\* never twice, and once for each event of the generated list by the end of
\* run_simulation_command, which no failed delivery ends with an error.
C11_EachEventPostedOnce ==
    InHistoricalRun =>
        /\ \A id \in DOMAIN post_calls : post_calls[id] = 1
        /\ RunEnded =>
              \A k \in 1 .. Len(events) : events[k].event_id \in DOMAIN post_calls

\* C12: for non-empty reference data and every parameter combination the
\* command line accepts (threads >= 0, volume >= 0, valid ISO start and end)
\* a historical run raises no error from run_simulation_command and ends by
\* reporting completion.
C12_OnlyMissingParametersFail ==
    (InHistoricalRun /\ c_pc = "in_command" /\ NonEmptyReferenceData
        /\ args.threads >= 0 /\ args.volume >= 0
        /\ FromIsoFormat(args.start_datetime).exc = ""
        /\ FromIsoFormat(args.end_datetime).exc = "")
    =>  /\ r_pc # "raised"
        /\ r_pc = "returned" => Completed

\* historical mode was invoked without a start or without an end datetime
StartOrEndMissing ==
    /\ InHistoricalRun
    /\ args.start_datetime = None \/ args.end_datetime = None

\* nothing was generated, no thread was started, nothing was posted
NoWorkStarted ==
    /\ factory_calls = 0
    /\ events = <<>>
    /\ uuid_counter = 0
    /\ thread_list = <<>>
    /\ \A t \in Workers : w_pc[t] = "unstarted"
    /\ post_calls = <<>>
    /\ deliveries = 0

\* C13, as claimed: when historical mode is invoked with the start or the end
\* datetime missing, run_simulation_command reports the configuration error
\* and returns, before any event is generated, any worker is started or any
\* event is posted.
C13_ReportsBeforeAnyWork ==
    StartOrEndMissing =>
        /\ NoWorkStarted
        /\ r_pc # "raised"
        /\ r_pc = "returned" => r_log = <<ErrorRequired>>

\* C13, amended: when historical mode is invoked with the start or the end
\* datetime missing, no event is generated, no worker is started and no event
\* is posted; the master data is loaded first, and run_simulation_command
\* then reports the configuration error and returns, unless the loader
\* raised, in which case the loader's error leaves it and nothing is
\* reported.
C13_ReportsAfterLoading ==
    StartOrEndMissing =>
        /\ NoWorkStarted
        /\ r_pc \in {"called", "returned", "raised"}
        /\ r_pc = "raised" => f_pc = "load_failed" /\ r_error = f_error /\ r_log = <<>>
        /\ r_pc = "returned" => f_pc = "ready" /\ r_log = <<ErrorRequired>>

\* a run of two threads and two events, with a start and no end, has reported
\* the configuration error and returned
C13_Witness ==
    /\ InHistoricalRun
    /\ args.start_datetime = IsoT0
    /\ args.end_datetime = None
    /\ args.threads = 2
    /\ args.volume = 2
    /\ r_pc = "returned"
    /\ r_log = <<ErrorRequired>>

\* every thread the dispatcher started has ended
StartedWorkersFinished ==
    \A k \in 1 .. Len(thread_list) : w_pc[thread_list[k]] = "finished"

\* C14: in historical and in live mode the dispatcher reports completion only
\* after every worker it started has finished, and no delivery attempt and no
\* post_event call of any worker happens after the completion report.
C14_CompletionAfterWorkers ==
    /\ [](Completed => StartedWorkersFinished)
    /\ [][Completed => (deliveries' = deliveries /\ post_calls' = post_calls
                           /\ w_pc' = w_pc)]_vars

\* a live run of two threads and one second has reported completion after
\* both workers made delivery attempts
C14_Witness ==
    /\ LiveMode
    /\ Completed
    /\ Len(thread_list) = 2
    /\ args.duration_seconds = 1
    /\ DOMAIN post_calls = 1 .. 2
    /\ deliveries >= 4

\* C15: with threads >= 1 (and the start and the end given, in one timezone,
\* and non-empty reference data) a historical run runs to completion: it
\* never ends by an error or without the completion report, and at most
\* volume * max_retries delivery attempts are made.
C15_HistoricalRunsToCompletion ==
    (InHistoricalRun /\ args.threads >= 1 /\ NonEmptyReferenceData
        /\ FromIsoFormat(args.start_datetime).exc = ""
        /\ FromIsoFormat(args.end_datetime).exc = ""
        /\ FromIsoFormat(args.start_datetime).value.tz
              = FromIsoFormat(args.end_datetime).value.tz)
    =>  /\ r_pc # "raised"
        /\ r_pc = "returned" => Completed /\ StartedWorkersFinished
        /\ deliveries <= args.volume * max_retries

\* the generator of a positive duration_seconds has been started
TimedGenerator ==
    /\ l_pc \in {"loop", "create", "yielded", "sleep", "done", "raised"}
    /\ duration_seconds > 0

\* the end of the duration, on the clock
Deadline == start_time + duration_seconds * SECOND

\* C16, as claimed: generate_live_events with duration_seconds > 0 emits no
\* event once the time elapsed since the generator's first call has reached
\* duration_seconds: an emitted event is created and yielded before
\* start_time + duration_seconds.
C16_NoEmissionAfterDuration ==
    (TimedGenerator /\ yielded # <<>>) => yielded.played_at.us < Deadline

\* C16, amended: with duration_seconds > 0 every emission is preceded by an
\* elapsed-time check that read less than duration_seconds (the event itself
\* is created and emitted after that reading, possibly after the duration has
\* elapsed); the generator ends at the first check that reads duration_seconds
\* or more, and nothing is emitted after a resume at or after start_time +
\* duration_seconds.
C16_CheckedBeforeEmission ==
    TimedGenerator =>
        /\ l_pc = "done" <=> now >= Deadline
        /\ l_pc \in {"create", "yielded"} => now < Deadline
        /\ l_pc = "yielded" => yielded.played_at.us >= now
        /\ (l_pc \in {"create", "yielded"} /\ count >= 1) => wake_at - interval < Deadline

\* a generator of two seconds, one event a second, has ended after two events
C16_Witness ==
    /\ l_pc = "done"
    /\ duration_seconds = 2
    /\ interval = SECOND
    /\ count = 2
    /\ yielded # <<>>
    /\ yielded.played_at.us < Deadline
    /\ now = Deadline

\* C17: a live run with duration_seconds <= 0 and threads >= 1 (on non-empty
\* reference data) never ends on its own: the generator of no worker
\* terminates, no worker thread ends, and the dispatcher never reports
\* completion.
C17_IndefiniteRunNeverCompletes ==
    (LiveMode /\ args.duration_seconds <= 0 /\ args.threads >= 1 /\ NonEmptyReferenceData)
    =>  /\ \A t \in Workers : w_pc[t] # "finished"
        /\ ~Completed
        /\ r_pc # "returned"

\* the request was accepted (its body is a valid PlayEventData) and answered
Answered(q) == a_pc[q] = "responded" /\ a_event[q] # <<>>

\* C18: POST /play responds 201 with the request's event_id echoed if and
\* only if the forward of the event to the producer returned without error;
\* if the forward failed it responds 500 with the detail "Failed to forward
\* event to Kafka.", never 201, and nothing is answered before the forward
\* has ended.
C18_CreatedIffForwarded ==
    \A q \in Requests :
        /\ (a_event[q] # <<>> /\ a_forward[q] = "") => a_response[q] = <<>>
        /\ Answered(q) =>
              /\ a_forward[q] \in {"returned", "raised"}
              /\ a_response[q].status = 201 <=> a_forward[q] = "returned"
              /\ a_forward[q] = "returned" =>
                    a_response[q].body = [message |-> "Play event received",
                                          event_id |-> a_event[q].event_id]
              /\ a_forward[q] = "raised" =>
                    a_response[q] = [status |-> 500,
                                     body |-> [detail |-> "Failed to forward event to Kafka."]]

\* two requests for different events: the forward of "e1" failed and was
\* answered 500, the forward of "e2" returned and was answered 201
C18_Witness ==
    \E q1, q2 \in Requests :
        /\ Answered(q1) /\ Answered(q2)
        /\ a_event[q1].event_id = "e1"
        /\ a_response[q1].status = 500
        /\ a_event[q2].event_id = "e2"
        /\ a_response[q2].status = 201
        /\ a_response[q2].body.event_id = "e2"

\* C19: the ingestion API invokes the producer exactly once per accepted
\* POST /play request, whether the forward succeeds or fails: never twice,
\* once by the time the request is answered, and never for a request whose
\* body was rejected; no more messages are forwarded than requests answered
\* 201.
C19_ProducerInvokedOnce ==
    /\ \A q \in Requests :
          /\ produce_calls[q] <= 1
          /\ Answered(q) => produce_calls[q] = 1
          /\ a_event[q] = <<>> => produce_calls[q] = 0
    /\ Len(topic) = Cardinality({ q \in Requests : a_forward[q] = "returned" })

\* a request whose forward failed has been answered, after one call of the
\* producer, while another request was forwarded
C19_Witness ==
    \E q1, q2 \in Requests :
        /\ Answered(q1)
        /\ a_forward[q1] = "raised"
        /\ produce_calls[q1] = 1
        /\ a_forward[q2] = "returned"
        /\ Len(topic) = 1

\* the command line gives a negative number for a count
NegativeOption ==
    \/ command = "run" /\ \E n \in {"threads", "volume", "posting_rate", "duration_seconds"} :
                              options[n] < 0
    \/ command = "generate-master"
          /\ \E n \in {"num_songs", "num_users", "num_locations"} : options[n] < 0

\* C20: a negative value for threads, volume, posting_rate, duration_seconds
\* or a master data count is rejected at startup: the command line fails
\* with a parameter error, run_simulation_command and
\* generate_master_data_command are never invoked, no file is loaded or
\* written, no worker starts and no event is generated.
C20_NegativeRejected ==
    NegativeOption =>
        /\ c_pc \in {"invoked", "bad_parameter"}
        /\ c_pc = "bad_parameter" => c_error # ""
        /\ r_pc = "idle"
        /\ m_pc = "idle"
        /\ f_pc = "new"
        /\ NoWorkStarted

\* `run` with a negative posting_rate, otherwise a complete historical run,
\* has failed with the parameter error
C20_Witness ==
    /\ command = "run"
    /\ options.posting_rate = -1
    /\ options.historical
    /\ options.start_datetime = IsoT0
    /\ options.end_datetime = IsoT2
    /\ c_pc = "bad_parameter"
    /\ c_error = "posting_rate"

\* C21: in historical mode the delivery calls started across all workers in
\* any one-second window do not exceed posting_rate. The window looked at is
\* the running second, which began at the last clock reading.
C21_PostingRateRespected ==
    InHistoricalRun => window_posts <= args.posting_rate

\* the historical dispatcher has started every one of its threads
AllChunksHanded ==
    /\ InHistoricalRun
    /\ args.threads >= 1
    /\ r_pc \in {"spawn", "returned"}
    /\ Len(thread_list) = args.threads

\* the chunks of the first n threads started, one after the other
RECURSIVE ChunksInOrder(_)
ChunksInOrder(n) ==
    IF n = 0 THEN <<>> ELSE ChunksInOrder(n - 1) \o w_chunk[thread_list[n]]

\* the places <<thread, position>> of the chunks that hold the event
PlacesOf(e) ==
    { <<t, j>> \in Workers \X (1 .. Len(events)) :
        j <= Len(w_chunk[t]) /\ w_chunk[t][j].event_id = e.event_id }

\* C22: for volume >= 0 and threads >= 1 the chunks handed to the workers
\* are contiguous slices of the generated batch, pairwise disjoint, and their
\* concatenation in worker order is the batch: every generated event is in
\* exactly one worker's chunk. While the threads are being started the
\* chunks handed out so far are a prefix of the batch.
C22_ChunksPartitionBatch ==
    (InHistoricalRun /\ args.threads >= 1 /\ r_pc \in {"spawn", "returned"}) =>
        /\ \A t \in Workers :
              \E a \in 1 .. Len(events) + 1, b \in 0 .. Len(events) :
                 w_chunk[t] = SubSeq(events, a, b)
        /\ LET handed == ChunksInOrder(Len(thread_list))
           IN  /\ Len(handed) <= Len(events)
               /\ handed = SubSeq(events, 1, Len(handed))
        /\ \A k \in 1 .. Len(events) : Cardinality(PlacesOf(events[k])) <= 1
        /\ AllChunksHanded =>
              /\ ChunksInOrder(args.threads) = events
              /\ \A k \in 1 .. Len(events) : Cardinality(PlacesOf(events[k])) = 1

\* three events were generated and handed to two threads, two and one
C22_Witness ==
    /\ AllChunksHanded
    /\ args.threads = 2
    /\ Len(events) = 3
    /\ Len(w_chunk[1]) = 2
    /\ Len(w_chunk[2]) = 1
    /\ w_chunk[2][1] = events[3]

\* the threads that have been started
Started == { t \in Workers : w_pc[t] # "unstarted" }

\* the number of events in the chunk of the i-th thread started
SizeOf(i) == Len(w_chunk[thread_list[i]])

\* the least c with c * threads >= len
CeilingShare(len, threads) ==
    CHOOSE c \in 0 .. len : c * threads >= len /\ (c = 0 \/ (c - 1) * threads < len)

\* C23, as claimed: for volume >= 0 and threads >= 1 the historical
\* dispatcher starts exactly `threads` workers over `threads` chunks, every
\* chunk except the last has the same size and only the last may be smaller.
C23_OnlyLastChunkSmaller ==
    (InHistoricalRun /\ args.threads >= 1) =>
        /\ Cardinality(Started) = Len(thread_list)
        /\ Len(thread_list) <= args.threads
        /\ AllChunksHanded =>
              /\ \A i \in 1 .. args.threads - 1 : SizeOf(i) = SizeOf(1)
              /\ SizeOf(args.threads) <= SizeOf(1)

\* C23, amended: for volume >= 0 and threads >= 1 the historical dispatcher
\* starts exactly `threads` workers over `threads` chunks; with
\* chunk_size = ceil(len(events) / threads), the chunks hold chunk_size
\* events each until the batch runs out: the first chunk that is not full
\* holds what is left of the batch and every chunk after it is empty. So at
\* most one chunk is partly filled, and it need not be the last one.
C23_FullChunksThenRest ==
    (InHistoricalRun /\ args.threads >= 1) =>
        /\ Cardinality(Started) = Len(thread_list)
        /\ Len(thread_list) <= args.threads
        /\ AllChunksHanded =>
              LET share == CeilingShare(Len(events), args.threads)
                  left(i) == Len(events) - (i - 1) * share
              IN  \A i \in 1 .. args.threads :
                     SizeOf(i) = IF left(i) >= share THEN share
                                 ELSE IF left(i) > 0 THEN left(i) ELSE 0

\* one event, three threads: the chunks hold one, no and no event
C23_Witness ==
    /\ AllChunksHanded
    /\ args.threads = 3
    /\ Len(events) = 1
    /\ SizeOf(1) = 1
    /\ SizeOf(2) = 0
    /\ SizeOf(3) = 0

\* post_event has been invoked with the event
Posted(e) == e.event_id \in DOMAIN post_calls

\* C24: within one historical chunk the events are delivered in generation
\* order: the events post_event has been invoked with are the first w_pos
\* events of the chunk, the only event a worker makes delivery attempts for
\* is the last of them, and so every attempt for the event at position j + 1
\* comes after post_event has returned for position j. (Between workers no
\* order holds: the witness has the third event of the batch delivered
\* before the first attempt for the second.)
C24_ChunkDeliveredInOrder ==
    InHistoricalRun =>
        \A t \in Workers :
           /\ w_pos[t] <= Len(w_chunk[t])
           /\ \A j \in 1 .. Len(w_chunk[t]) : Posted(w_chunk[t][j]) <=> j <= w_pos[t]
           /\ w_pc[t] = "posting" =>
                 /\ w_pos[t] >= 1
                 /\ w_event[t] = w_chunk[t][w_pos[t]]
           /\ w_pc[t] # "posting" => w_event[t] = <<>>
           /\ w_pc[t] = "finished" => w_pos[t] = Len(w_chunk[t])

\* two threads, three events: the first thread is about to make its first
\* attempt for the second event after three failed attempts for the first,
\* and the second thread has already posted the third event and ended
C24_Witness ==
    /\ InHistoricalRun
    /\ Len(events) = 3
    /\ w_chunk[1] = <<events[1], events[2]>>
    /\ w_chunk[2] = <<events[3]>>
    /\ w_pc[1] = "posting"
    /\ w_event[1] = events[2]
    /\ w_attempt[1] = 1
    /\ w_pc[2] = "finished"
    /\ deliveries = 4

\* the pace of a generator of the rate, in microseconds per event
Pace(rate) == IF rate > 0 THEN (60 * SECOND) \div rate ELSE SECOND

\* C25: one generate_live_events instance never runs ahead of its pace:
\* between two consecutive events it yields at least `interval` seconds
\* elapse, where interval is 60 / rate_per_minute for a positive rate and
\* one second otherwise.
C25_NeverAheadOfPace ==
    [][(l_pc # "yielded" /\ l_pc' = "yielded" /\ yielded # <<>>) =>
          /\ yielded'.event_id # yielded.event_id
          /\ clock' - yielded.played_at.us >= Pace(volume_per_minute)
          /\ yielded'.played_at.us - yielded.played_at.us >= Pace(volume_per_minute)]_vars

\* a generator of 30 events per minute has yielded its second event, two
\* seconds after the first
C25_Witness ==
    /\ l_pc = "yielded"
    /\ volume_per_minute = 30
    /\ count = 1
    /\ yielded.event_id = 2
    /\ yielded.played_at.us = 2 * SECOND

\* what thread t holds of its own: its position, its generator's start time
\* and sleep, the event it is posting
WorkerLocal(t) ==
    <<w_pc[t], w_chunk[t], w_pos[t], w_event[t], w_attempt[t], w_error[t],
      w_start[t], w_wake[t]>>

\* C26: live mode starts exactly `threads` workers, each running its own
\* generate_live_events instance (own start time, own pacing) at the full
\* configured rate and duration; the workers share no mutable state: a step
\* of one worker (an emission, a delayed or failed delivery, a sleep) leaves
\* every other worker's generator and position as they were.
C26_LiveWorkersIndependent ==
    /\ [](LiveMode =>
            /\ Cardinality(Started) = Len(thread_list)
            /\ Len(thread_list) <= args.threads
            /\ (joined > 0 \/ Completed) => Len(thread_list) = args.threads
            /\ \A t \in Workers :
                  /\ w_start[t] <= clock
                  /\ w_pc[t] = "sleep" =>
                        w_wake[t] <= clock + Pace(args.volume)
                  /\ (w_pc[t] = "finished" /\ w_error[t] = "") =>
                        /\ args.duration_seconds > 0
                        /\ clock - w_start[t] >= args.duration_seconds * SECOND)
    /\ [][LiveMode =>
            \A t \in Workers, u \in Workers :
               (t # u /\ WorkerLocal(t)' # WorkerLocal(t)) =>
                   WorkerLocal(u)' = WorkerLocal(u)]_vars

\* two live workers, one second after the start: the first is still at the
\* third delivery attempt for its first event, the second has emitted its
\* second event
C26_Witness ==
    /\ LiveMode
    /\ args.threads = 2
    /\ Len(thread_list) = 2
    /\ clock = SECOND
    /\ w_pc[1] = "posting"
    /\ w_attempt[1] = 3
    /\ w_event[1].played_at.us = 0
    /\ w_pc[2] = "posting"
    /\ w_event[2].played_at.us = SECOND
    /\ Cardinality(DOMAIN post_calls) = 3

\* the attempts made so far that failed
FailedAttempts == { k \in 1 .. attempts : transport[k] # "ok" }

\* C27: during one post_event call each failed attempt produces exactly one
\* error log entry carrying that attempt's 1-based number and the event's
\* identifier, and a successful attempt produces none: the log holds the
\* entries for attempts 1..f in order, where f is the number of failed
\* attempts.
C27_FailedAttemptsLogged ==
    /\ Len(log) = Cardinality(FailedAttempts)
    /\ \A k \in 1 .. Len(log) : log[k] = <<k, p_event>>
    /\ p_pc = "returned" =>
          Len(log) = IF result = "True" THEN attempts - 1 ELSE attempts

\* a call that succeeded at its third attempt has logged attempts 1 and 2
C27_Witness ==
    /\ p_pc = "returned"
    /\ result = "True"
    /\ attempts = 3
    /\ log = << <<1, p_event>>, <<2, p_event>> >>

\* kafka.produce calls made for the event of the post_event call
ForwardCalls ==
    Cardinality({ <<q, n>> \in Requests \X (1 .. MaxRequests + 1) :
                    /\ a_event[q] # <<>>
                    /\ a_event[q].event_id = p_event
                    /\ n <= produce_calls[q] })

\* the messages the producer has taken for the event
Forwarded == { k \in 1 .. Len(topic) : topic[k].event_id = p_event }

\* delivery attempts begun: those that have ended and the running one
AttemptsBegun == attempts + (IF p_pc = "loop" THEN 1 ELSE 0)

\* C28: end to end, for each event given to post_event against the
\* ingestion API: the number of times the event is forwarded to the Kafka
\* producer never exceeds the number of delivery attempts made for it (hence
\* never exceeds max_retries), and is at least one whenever post_event
\* returned True.
C28_ForwardsWithinAttempts ==
    /\ Cardinality(Forwarded) <= ForwardCalls
    /\ ForwardCalls <= AttemptsBegun
    /\ AttemptsBegun <= max_retries
    /\ (p_pc = "returned" /\ result = "True") => Cardinality(Forwarded) >= 1

\* post_event returned True at its second attempt: the first request was
\* answered with 500 and nothing was forwarded for it, the second was
\* forwarded and answered with 201
C28_Witness ==
    /\ p_pc = "returned"
    /\ result = "True"
    /\ attempts = 2
    /\ a_response[1] # <<>>
    /\ a_response[1].status = 500
    /\ a_response[2] # <<>>
    /\ a_response[2].status = 201
    /\ ForwardCalls = 2
    /\ Cardinality(Forwarded) = 1

\* C29: under any interleaving of concurrent POST /play requests sharing
\* the module-level KafkaInterface, the lazily created producer is
\* constructed at most once and every request's forward uses that same
\* producer instance.
C29_OneProducer ==
    /\ producers_made <= 1
    /\ \A q1 \in Requests, q2 \in Requests :
          (a_producer[q1] # 0 /\ a_producer[q2] # 0) => a_producer[q1] = a_producer[q2]

\* run_simulation_command was called with both mode flags, with none
BothFlags == args # <<>> /\ args.historical /\ args.live
NoFlag == args # <<>> /\ ~args.historical /\ ~args.live

\* no thread runs live_worker and nothing of live mode was logged
NoLiveRun ==
    /\ \A t \in Workers : w_pc[t] \notin {"loop", "create", "sleep"}
    /\ \A k \in 1 .. Len(r_log) : r_log[k] \notin {InfoLiveStart, InfoLiveComplete}
    /\ \A id \in DOMAIN post_calls : \E k \in 1 .. Len(events) : events[k].event_id = id

\* C30, as claimed: run_simulation_command runs at most one mode per
\* invocation: with both flags set only the historical run is performed and
\* no live worker is started; with no flag set an error is reported and no
\* event is generated, no worker is started and nothing is posted.
C30_OneModeOrError ==
    /\ BothFlags => NoLiveRun
    /\ NoFlag =>
          /\ NoWorkStarted
          /\ r_pc # "raised"
          /\ r_pc = "returned" => r_log = <<ErrorNoMode>>

\* C30, amended: run_simulation_command runs at most one mode per
\* invocation: with both flags set only the historical run is performed and
\* no live worker is started; with no flag set no event is generated, no
\* worker is started and nothing is posted, and the error is reported once
\* the master data has been loaded; when the loader raises, the loader's
\* error leaves run_simulation_command and the missing mode is not
\* reported.
C30_OneModeOrErrorAfterLoading ==
    /\ BothFlags => NoLiveRun
    /\ NoFlag =>
          /\ NoWorkStarted
          /\ r_pc \in {"called", "returned", "raised"}
          /\ r_pc = "raised" => f_pc = "load_failed" /\ r_error = f_error /\ r_log = <<>>
          /\ r_pc = "returned" => f_pc = "ready" /\ r_log = <<ErrorNoMode>>

\* a run with both flags has posted its event and reported the end of the
\* historical run, and nothing else
C30_Witness ==
    /\ BothFlags
    /\ r_pc = "returned"
    /\ r_log = <<InfoHistoricalStart, InfoHistoricalComplete>>
    /\ Len(events) = 1
    /\ DOMAIN post_calls = {events[1].event_id}
    /\ w_pc[1] = "finished"

====
